---------------------------- MODULE Spec2Model ----------------------------
(***************************************************************************)
(* A model of the surface / swapchain manager of `warm`:                   *)
(*   - Surface              (src/src/surface/mod.rs)                       *)
(*   - SemaphorePool        (src/src/surface/semaphore_pool.rs)            *)
(*   - SurfaceWithContents  (src/src/surface/surface_contents.rs)          *)
(*   - RenderPass           (src/src/render_pass/mod.rs)                   *)
(* Every public operation is one action.  The native (Vulkan) calls an     *)
(* operation makes are inputs of the action (their result codes) and are   *)
(* logged, in call order, in `last.trace`.                                 *)
(***************************************************************************)
EXTENDS Integers, Sequences, FiniteSets, TLC

VARIABLES
    surface,         \* the fields of `Surface`
    contents_valid,  \* SurfaceWithContents::contents_valid
    vk,              \* the native objects that exist (swapchains, semaphores)
    contents,        \* the notifications the SurfaceContents object received
    held,            \* semaphores checked out of the pool by a caller of get
    last,            \* the last operation: name, inputs, result, native calls
    rp,              \* the fields of a `RenderPass` used as the contents
    gpu,             \* the native objects of the render pass, and the GPU's work
    builder,         \* RenderPass::new: its RenderPassBuilder and native objects
    target,          \* Surface::new: the native surface and the Surface made
    query            \* a call of a helper function: its inputs and its result

vars == <<surface, contents_valid, vk, contents, held, last, rp, gpu,
          builder, target, query>>

\* no helper function is being called
NoQuery == [of |-> "none"]

\* what the operations of a constructed object leave alone
making == <<builder, target, query>>

\* what the operations of the surface leave alone
others == <<rp, gpu, making>>

-----------------------------------------------------------------------------
(* Bounds of the model *)

\* number of swapchains the native layer may create in one run
MaxSwapchains == 2
\* largest number of images a swapchain reports
MaxImages == 2
\* largest width / height requested or reported
MaxDim == 2
\* number of semaphores the pool may create in one run
MaxSemaphores == 4
\* largest number of images of a swapchain given to a render pass
MaxFrames == 2
\* number of framebuffers of a render pass that may exist at once
MaxFramebuffers == 3
\* number of submissions the GPU may have in flight
MaxPending == 2
\* largest number of subpasses of a render pass
MaxSubpasses == 3
\* largest number of attachments given to RenderPass::new
MaxAttachments == 2
\* largest number of subpasses given to RenderPass::new
MaxRequests == 2
\* largest number of color references a subpass requests
MaxRefs == 2

\* largest number of items a native query reports
MaxCount == 2
\* largest number of count-then-read rounds of one read_into_vector
MaxReads == 3
\* largest image count a surface reports as a bound
MaxImageCount == 8

-----------------------------------------------------------------------------
(* Native handles and result codes *)

\* vk::SwapchainKHR::null()
Null == 0

\* vk::PresentModeKHR raw values, the discriminants of PresentMode
Immediate == 0
Mailbox == 1
Fifo == 2
FifoRelaxed == 3

PresentModeValues == {Immediate, Mailbox, Fifo, FifoRelaxed}

Success == "SUCCESS"

\* failure codes the native layer may report
VkErrors == {"ERROR_SURFACE_LOST_KHR", "ERROR_OUT_OF_DATE_KHR", "TIMEOUT",
             "ERROR_DEVICE_LOST"}

\* result codes of a native call that can fail
VkResults == {Success} \cup VkErrors

Ok == <<"Ok", "">>

Err(tag) == <<tag, "">>

UnexpectedError(code) == <<"UnexpectedError", code>>

\* a logged native call (or callback): its name and two integer operands
Event(name, a, b) == <<name, a, b>>

\* the positions of the calls `name` in a trace
Positions(trace, name) == {i \in DOMAIN trace : trace[i][1] = name}

\* a flag as the operand of a logged call
B(cond) == IF cond THEN 1 ELSE 0

-----------------------------------------------------------------------------
(* SurfaceCapabilities *)

\* PresentModes::from(PresentMode): the bit 1 << value
ModeBit(mode) == 2 ^ mode

\* bitflags `contains` for a single-bit operand
Contains(bits, bit) == (bits \div bit) % 2 = 1

IsSizeValid(caps, width, height) ==
    IF width < caps.min_size[1] \/ height < caps.min_size[2]
    THEN FALSE
    ELSE IF caps.max_size.some
              /\ (width > caps.max_size.w \/ height > caps.max_size.h)
         THEN FALSE
         ELSE TRUE

IsPresentModeValid(caps, present_mode) ==
    Contains(caps.present_modes, ModeBit(present_mode))

IsConfigValidNoZeroCheck(caps, config) ==
    /\ IsSizeValid(caps, config.width, config.height)
    /\ IsPresentModeValid(caps, config.present_mode)

IsConfigValid(caps, config) ==
    /\ config.width > 0
    /\ config.height > 0
    /\ IsSizeValid(caps, config.width, config.height)
    /\ IsPresentModeValid(caps, config.present_mode)

\* Surface::capabilities on the native answer `native` (Ok case)
Capabilities(s, native) ==
    [max_size |-> IF native.max[1] = 0 \/ native.max[2] = 0
                  THEN [some |-> FALSE, w |-> 0, h |-> 0]
                  ELSE [some |-> TRUE, w |-> native.max[1], h |-> native.max[2]],
     min_size |-> native.min,
     present_modes |-> s.info_present_modes]

vk_to_surface_err(code) ==
    IF code = "ERROR_SURFACE_LOST_KHR" THEN Err("Lost")
    ELSE UnexpectedError(code)

\* a conversion that wraps every code without looking at it
vk_to_present_err_untyped(code) == UnexpectedError(code)

vk_to_present_err(code) ==
    CASE code = "ERROR_SURFACE_LOST_KHR" -> Err("Lost")
      [] code = "ERROR_OUT_OF_DATE_KHR" -> Err("OutOfDate")
      [] code = "TIMEOUT" -> Err("Timeout")
      [] OTHER -> UnexpectedError(code)


-----------------------------------------------------------------------------
(* SemaphorePool *)

\* SemaphorePool::give_back: Vec::push
give_back(pool, semaphore) == Append(pool, semaphore)

\* a pool that hands out the oldest free semaphore instead of the newest
PoolGetOldest(pool, v, code) ==
    IF pool # << >>
    THEN [ok |-> TRUE, semaphore |-> Head(pool), pool |-> Tail(pool),
          vk |-> v, result |-> Ok, trace |-> << >>]
    ELSE IF code = Success
         THEN [ok |-> TRUE, semaphore |-> v.semaphores + 1, pool |-> pool,
               vk |-> [v EXCEPT !.semaphores = @ + 1], result |-> Ok,
               trace |-> <<Event("create_semaphore", v.semaphores + 1, 1)>>]
         ELSE [ok |-> FALSE, semaphore |-> 0, pool |-> pool, vk |-> v,
               result |-> UnexpectedError(code),
               trace |-> <<Event("create_semaphore", 0, 0)>>]

\* SemaphorePool::get: Vec::pop, or create_semaphore (result `code`) when the
\* free list is empty
PoolGet(pool, v, code) ==
    IF pool # << >>
    THEN [ok |-> TRUE, semaphore |-> pool[Len(pool)],
          pool |-> SubSeq(pool, 1, Len(pool) - 1),
          vk |-> v, result |-> Ok, trace |-> << >>]
    ELSE IF code = Success
         THEN [ok |-> TRUE, semaphore |-> v.semaphores + 1, pool |-> pool,
               vk |-> [v EXCEPT !.semaphores = @ + 1], result |-> Ok,
               trace |-> <<Event("create_semaphore", v.semaphores + 1, 1)>>]
         ELSE [ok |-> FALSE, semaphore |-> 0, pool |-> pool, vk |-> v,
               result |-> UnexpectedError(code),
               trace |-> <<Event("create_semaphore", 0, 0)>>]

\* a scoped handle that is forgotten instead of dropped
SemaphoreInPool_forget(pool, semaphore) == pool

\* impl Drop for SemaphoreInPool
SemaphoreInPool_drop(pool, semaphore) == give_back(pool, semaphore)

-----------------------------------------------------------------------------
(* Surface *)

\* the semaphore a SurfaceContents signals when frame `index` is rendered
\* (RenderPass: per_frame[index].semaphore); never a pool semaphore
FrameSemaphore(index) == 0 - (index + 1)

\* the handle of image `i` of swapchain `sc`
Image(sc, i) == <<sc, i>>

is_swapchain_always_valid(s) == TRUE

\* Surface::is_swapchain_valid
is_swapchain_valid(s) == s.swapchain # Null

\* a reconfiguration that keeps the old handle and image list in place
KeepSwapchain(s) == s

\* a reconfiguration that takes the handle and leaves the image list
TakeSwapchainOnly(s) == [s EXCEPT !.swapchain = Null]

\* Surface::configure_unchecked, its first two statements
TakeSwapchain(s) == [s EXCEPT !.swapchain = Null, !.images = << >>]

\* a reconfiguration that forgets to store the new handle
StoreConfigOnly(s, new_swapchain, config) == [s EXCEPT !.config = config]

\* Surface::configure_unchecked, its last two statements
StoreSwapchain(s, new_swapchain, config) ==
    [s EXCEPT !.swapchain = new_swapchain, !.config = config]

\* create_swapchain: the native call with `old_swapchain` as the hint;
\* `code` is the native result
create_swapchain(v, old_swapchain, code) ==
    IF code = Success
    THEN [ok |-> TRUE, swapchain |-> v.swapchains + 1,
          vk |-> [v EXCEPT !.swapchains = @ + 1,
                           !.live = @ \cup {v.swapchains + 1}],
          result |-> Ok,
          trace |-> <<Event("create_swapchain", old_swapchain, v.swapchains + 1)>>]
    ELSE [ok |-> FALSE, swapchain |-> Null, vk |-> v,
          result |-> vk_to_surface_err(code),
          trace |-> <<Event("create_swapchain", old_swapchain, Null)>>]

\* Fns::destroy_swapchain
destroy_swapchain(v, swapchain) ==
    [v EXCEPT !.live = @ \ {swapchain},
              !.destroyed = @ \cup {swapchain},
              !.double_destroy = @ \/ swapchain \in v.destroyed]

\* Fns::get_swapchain_images into `images`: on SUCCESS the `count` images of
\* the swapchain are appended, on failure the vector keeps its length
get_swapchain_images(images, swapchain, code, count) ==
    IF code = Success
    THEN images \o [i \in 1..count |-> Image(swapchain, i)]
    ELSE images

\* Surface::configure_unchecked; nat: the native results
\*   [create, images: result codes, count: the number of images reported]
configure_unchecked(s, v, config, nat) ==
    LET old_swapchain == s.swapchain
        s1 == TakeSwapchain(s)
        c == create_swapchain(v, old_swapchain, nat.create)
    IN  IF ~c.ok
        THEN [surface |-> s1, vk |-> v, result |-> c.result, trace |-> c.trace]
        ELSE IF nat.images # Success
             THEN \* the ScopeGuard destroys the new swapchain
                  [surface |-> [s1 EXCEPT !.images =
                                   get_swapchain_images(s1.images, c.swapchain,
                                                        nat.images, nat.count)],
                   vk |-> destroy_swapchain(c.vk, c.swapchain),
                   result |-> vk_to_surface_err(nat.images),
                   trace |-> c.trace
                             \o <<Event("get_swapchain_images", c.swapchain, 0 - 1),
                                  Event("destroy_swapchain", c.swapchain, 0)>>]
             ELSE [surface |->
                       StoreSwapchain(
                           [s1 EXCEPT !.images =
                               get_swapchain_images(s1.images, c.swapchain,
                                                    nat.images, nat.count)],
                           c.swapchain, config),
                   vk |-> c.vk,
                   result |-> Ok,
                   trace |-> c.trace
                             \o <<Event("get_swapchain_images", c.swapchain,
                                        nat.count)>>]

\* Surface::configure; caps: the native answer to the capability query
\*   [code, min, max]
configure(s, v, config, caps, nat) ==
    IF caps.code # Success
    THEN [surface |-> s, vk |-> v, result |-> vk_to_surface_err(caps.code),
          trace |-> <<Event("get_capabilities", 0, 0)>>]
    ELSE IF ~IsConfigValid(Capabilities(s, caps), config)
         THEN [surface |-> s, vk |-> v, result |-> Err("InvalidConfig"),
               trace |-> <<Event("get_capabilities", 1, 0)>>]
         ELSE LET r == configure_unchecked(s, v, config, nat)
              IN  [r EXCEPT !.trace = <<Event("get_capabilities", 1, 0)>> \o @]

\* SemaphorePool::destroy: semaphores.drain(..), each one destroyed
SemaphorePool_destroy(pool) ==
    [pool |-> << >>,
     trace |-> [i \in DOMAIN pool |-> Event("destroy_semaphore", pool[i], 0)]]

\* a drop that destroys the native surface before what was made from it
Surface_drop_surface_first(s, v) ==
    LET p == SemaphorePool_destroy(s.semaphore_pool)
    IN  [surface |-> [s EXCEPT !.semaphore_pool = p.pool],
         vk |-> IF s.swapchain # Null THEN destroy_swapchain(v, s.swapchain)
                ELSE v,
         native_surface |-> "destroyed",
         trace |-> <<Event("destroy_surface", 0, 0)>>
                   \o (IF s.swapchain # Null
                       THEN <<Event("destroy_swapchain", s.swapchain, 0)>>
                       ELSE << >>)
                   \o p.trace]

\* Drop for Surface: the semaphore pool, the swapchain if there is one, the
\* native surface
Surface_drop(s, v) ==
    LET p == SemaphorePool_destroy(s.semaphore_pool)
    IN  [surface |-> [s EXCEPT !.semaphore_pool = p.pool],
         vk |-> IF s.swapchain # Null THEN destroy_swapchain(v, s.swapchain)
                ELSE v,
         native_surface |-> "destroyed",
         trace |-> p.trace
                   \o (IF s.swapchain # Null
                       THEN <<Event("destroy_swapchain", s.swapchain, 0)>>
                       ELSE << >>)
                   \o <<Event("destroy_surface", 0, 0)>>]

\* a present that issues the present call whatever render returned
PresentLive_present_always(s, v, nat) ==
    LET g == PoolGet(s.semaphore_pool, v, nat.semaphore)
        acquired == Event("acquire_next_image", g.semaphore,
                          IF nat.acquire \in {Success, "SUBOPTIMAL_KHR"}
                          THEN nat.index ELSE 0 - 1)
        released == [s EXCEPT !.semaphore_pool =
                                  SemaphoreInPool_drop(g.pool, g.semaphore)]
        give == <<Event("give_back", g.semaphore, 0)>>
    IN  IF ~g.ok
        THEN [surface |-> s, vk |-> g.vk, result |-> g.result, trace |-> g.trace]
        ELSE IF nat.acquire \notin {Success, "SUBOPTIMAL_KHR"}
        THEN [surface |-> released, vk |-> g.vk,
              result |-> vk_to_present_err(nat.acquire),
              trace |-> g.trace \o <<acquired>> \o give]
        ELSE [surface |-> [released EXCEPT !.present_wait_semaphores =
                              IF nat.render = Success
                              THEN <<FrameSemaphore(nat.index)>> ELSE << >>],
              vk |-> g.vk,
              result |-> IF nat.render # Success
                         THEN UnexpectedError(nat.render)
                         ELSE IF nat.present = Success THEN Ok
                         ELSE vk_to_present_err(nat.present),
              trace |-> g.trace
                        \o <<acquired,
                             Event("render", nat.index,
                                   B(nat.render = Success)),
                             Event("queue_present", nat.index,
                                   B(nat.present = Success))>>
                        \o give]

\* a present that gives the semaphore back as soon as the image is acquired
PresentLive_release_early(s, v, nat) ==
    LET g == PoolGet(s.semaphore_pool, v, nat.semaphore)
        acquired == Event("acquire_next_image", g.semaphore,
                          IF nat.acquire \in {Success, "SUBOPTIMAL_KHR"}
                          THEN nat.index ELSE 0 - 1)
        released == [s EXCEPT !.semaphore_pool =
                                  SemaphoreInPool_drop(g.pool, g.semaphore)]
        give == <<Event("give_back", g.semaphore, 0)>>
    IN  IF ~g.ok
        THEN [surface |-> s, vk |-> g.vk, result |-> g.result, trace |-> g.trace]
        ELSE IF nat.acquire \notin {Success, "SUBOPTIMAL_KHR"}
        THEN [surface |-> released, vk |-> g.vk,
              result |-> vk_to_present_err(nat.acquire),
              trace |-> g.trace \o <<acquired>> \o give]
        ELSE IF nat.render # Success
        THEN [surface |-> [released EXCEPT !.present_wait_semaphores = << >>],
              vk |-> g.vk,
              result |-> UnexpectedError(nat.render),
              trace |-> g.trace \o <<acquired>> \o give
                        \o <<Event("render", nat.index, 0)>>]
        ELSE [surface |-> [released EXCEPT !.present_wait_semaphores =
                              <<FrameSemaphore(nat.index)>>],
              vk |-> g.vk,
              result |-> IF nat.present = Success THEN Ok
                         ELSE vk_to_present_err(nat.present),
              trace |-> g.trace \o <<acquired>> \o give
                        \o <<Event("render", nat.index, 1),
                             Event("queue_present", nat.index,
                                   B(nat.present = Success))>>]

\* Surface::present past the retired check; nat: the native results
\*   [semaphore, acquire, render, present: result codes, index: the image
\*    index the acquisition reports]
PresentLive(s, v, nat) ==
    LET g == PoolGet(s.semaphore_pool, v, nat.semaphore)
        acquired == Event("acquire_next_image", g.semaphore,
                          IF nat.acquire \in {Success, "SUBOPTIMAL_KHR"}
                          THEN nat.index ELSE 0 - 1)
        \* the scoped handle is dropped when present returns
        released == [s EXCEPT !.semaphore_pool =
                                  SemaphoreInPool_drop(g.pool, g.semaphore)]
        give == <<Event("give_back", g.semaphore, 0)>>
        rendered == <<FrameSemaphore(nat.index)>>
    IN  IF ~g.ok
        THEN [surface |-> s, vk |-> g.vk, result |-> g.result, trace |-> g.trace]
        ELSE IF nat.acquire \notin {Success, "SUBOPTIMAL_KHR"}
        THEN [surface |-> released, vk |-> g.vk,
              result |-> vk_to_present_err(nat.acquire),
              trace |-> g.trace \o <<acquired>> \o give]
        ELSE IF nat.render # Success
        THEN [surface |-> [released EXCEPT !.present_wait_semaphores = << >>],
              vk |-> g.vk,
              result |-> UnexpectedError(nat.render),
              trace |-> g.trace
                        \o <<acquired, Event("render", nat.index, 0)>> \o give]
        ELSE [surface |-> [released EXCEPT !.present_wait_semaphores = rendered],
              vk |-> g.vk,
              result |-> IF nat.present = Success THEN Ok
                         ELSE vk_to_present_err(nat.present),
              trace |-> g.trace
                        \o <<acquired, Event("render", nat.index, 1),
                             Event("queue_present", nat.index,
                                   IF nat.present = Success THEN 1 ELSE 0)>>
                        \o give]

\* Surface::present
present(s, v, nat) ==
    IF ~is_swapchain_valid(s)
    THEN [surface |-> s, vk |-> v, result |-> Err("SwapchainRetired"),
          trace |-> << >>]
    ELSE PresentLive(s, v, nat)

-----------------------------------------------------------------------------
(* SurfaceWithContents *)

\* the states of a SurfaceContents object, by the last notification it got:
\*   "Invalid": none yet, or notify_destroy_images
\*   "Valid":   notify_new_images that returned Ok
\*   "Failed":  notify_new_images that returned an error
ContentsStates == {"Invalid", "Valid", "Failed"}

\* the notification is sent but the flag is left set
NotifyDestroyKeepFlag(cv, c) ==
    IF cv
    THEN [contents_valid |-> TRUE,
          contents |-> [c EXCEPT !.state = "Invalid",
                                 !.destroy_twice = @ \/ c.state = "Invalid"],
          trace |-> <<Event("notify_destroy_images", 0, 0)>>]
    ELSE [contents_valid |-> cv, contents |-> c, trace |-> << >>]

\* SurfaceWithContents::configure_unchecked, its first statement: the
\* contents are told that their images go away, if they are valid
NotifyDestroy(cv, c) ==
    IF cv
    THEN [contents_valid |-> FALSE,
          contents |-> [c EXCEPT !.state = "Invalid",
                                 !.destroy_twice = @ \/ c.state = "Invalid"],
          trace |-> <<Event("notify_destroy_images", 0, 0)>>]
    ELSE [contents_valid |-> cv, contents |-> c, trace |-> << >>]

\* SurfaceContents::notify_new_images as seen by the contents; code: its result
NotifyNew(c, code) ==
    [c EXCEPT !.state = IF code = Success THEN "Valid" ELSE "Failed",
              !.new_twice = @ \/ c.state \in {"Valid", "Failed"}]

\* a configure_unchecked that puts the flag back when the swapchain could
\* not be replaced
Swc_configure_unchecked_restore_flag(s, v, cv, c, config, nat) ==
    LET d == NotifyDestroy(cv, c)
        r == configure_unchecked(s, v, config, nat)
    IN  IF r.result # Ok
        THEN [surface |-> r.surface, vk |-> r.vk,
              contents_valid |-> cv, contents |-> d.contents,
              result |-> r.result, trace |-> d.trace \o r.trace]
        ELSE [surface |-> r.surface, vk |-> r.vk,
              contents_valid |-> IF nat.notify = Success THEN TRUE
                                 ELSE d.contents_valid,
              contents |-> NotifyNew(d.contents, nat.notify),
              result |-> IF nat.notify = Success THEN Ok
                         ELSE UnexpectedError(nat.notify),
              trace |-> d.trace \o r.trace
                        \o <<Event("notify_new_images", Len(r.surface.images),
                                   IF nat.notify = Success THEN 1 ELSE 0)>>]

\* SurfaceWithContents::configure_unchecked
Swc_configure_unchecked(s, v, cv, c, config, nat) ==
    LET d == NotifyDestroy(cv, c)
        r == configure_unchecked(s, v, config, nat)
    IN  IF r.result # Ok
        THEN [surface |-> r.surface, vk |-> r.vk,
              contents_valid |-> d.contents_valid, contents |-> d.contents,
              result |-> r.result, trace |-> d.trace \o r.trace]
        ELSE [surface |-> r.surface, vk |-> r.vk,
              contents_valid |-> IF nat.notify = Success THEN TRUE
                                 ELSE d.contents_valid,
              contents |-> NotifyNew(d.contents, nat.notify),
              result |-> IF nat.notify = Success THEN Ok
                         ELSE UnexpectedError(nat.notify),
              trace |-> d.trace \o r.trace
                        \o <<Event("notify_new_images", Len(r.surface.images),
                                   IF nat.notify = Success THEN 1 ELSE 0)>>]

\* SurfaceWithContents::configure
Swc_configure(s, v, cv, c, config, caps, nat) ==
    IF caps.code # Success
    THEN [surface |-> s, vk |-> v, contents_valid |-> cv, contents |-> c,
          result |-> vk_to_surface_err(caps.code),
          trace |-> <<Event("get_capabilities", 0, 0)>>]
    ELSE IF ~IsConfigValid(Capabilities(s, caps), config)
         THEN [surface |-> s, vk |-> v, contents_valid |-> cv, contents |-> c,
               result |-> Err("InvalidConfig"),
               trace |-> <<Event("get_capabilities", 1, 0)>>]
         ELSE LET r == Swc_configure_unchecked(s, v, cv, c, config, nat)
              IN  [r EXCEPT !.trace = <<Event("get_capabilities", 1, 0)>> \o @]

\* a present that does not look at contents_valid
Swc_present_unchecked(s, v, cv, nat) == present(s, v, nat)

\* SurfaceWithContents::present
Swc_present(s, v, cv, nat) ==
    IF ~cv
    THEN [surface |-> s, vk |-> v, result |-> Err("OutOfDate"), trace |-> << >>]
    ELSE present(s, v, nat)

-----------------------------------------------------------------------------
(* RenderPass: the per-frame data and the native objects behind it *)

\* the code a failing native call of the render pass reports
OutOfMemory == "ERROR_OUT_OF_HOST_MEMORY"

\* the native objects of a render pass that has no per-frame data yet
NoObjects ==
    [fences |-> {},             \* live fences
     semaphores |-> {},         \* live semaphores
     command_buffers |-> {},    \* allocated command buffers
     live_framebuffers |-> {},  \* framebuffers not destroyed
     signaled |-> {},           \* fences in the signaled state
     pending |-> {}]            \* submissions the GPU has not completed

\* RenderPass::new, for a list of `subpasses` subpasses
NewRenderPass(subpasses) ==
    [per_frame |-> << >>, images |-> 0, subpasses |-> subpasses,
     \* OutputAttachment::views of its output attachment: Vec::new()
     views |-> << >>]

\* the element of a one-element set: { e(x) : x \in {v} } names the value v
\* once, however often e uses it
The(S) == CHOOSE x \in S : TRUE

\* the result `r` of the rest of a loop, after the calls in `trace`
After(trace, r) == [r EXCEPT !.trace = trace \o @]

\* the handle the native layer gives to a new object: the first one that no
\* object in `used` has
Fresh(used) ==
    CHOOSE id \in 1..(Cardinality(used) + 1) :
        id \notin used /\ \A j \in 1..(id - 1) : j \in used

\* the handles of the per-frame objects the native layer still knows
UsedHandles(g) ==
    g.fences \cup g.command_buffers
    \cup {p.fence : p \in g.pending} \cup {p.command_buffer : p \in g.pending}

\* a fence that is created unsignaled whatever the flag
create_fence_unsignaled(g, id, signaled) ==
    [g EXCEPT !.fences = @ \cup {id}]

\* create_fence(gpu, signaled)
create_fence(g, id, signaled) ==
    [g EXCEPT !.fences = @ \cup {id},
              !.signaled = IF signaled THEN @ \cup {id} ELSE @]

destroy_fence(g, id) ==
    [g EXCEPT !.fences = @ \ {id}, !.signaled = @ \ {id}]

\* a PerFrame::new without ScopeGuards: what was created before the failing
\* call is left as it is
PerFrame_new_unguarded(g, fail) ==
    LET id == Fresh(UsedHandles(g))
        fenced == create_fence(g, id, TRUE)
    IN  CASE fail = "fence" ->
               [ok |-> FALSE, gpu |-> g,
                trace |-> <<Event("create_fence", 0, 0)>>]
          [] fail = "semaphore" ->
               [ok |-> FALSE, gpu |-> fenced,
                trace |-> <<Event("create_fence", id, 1),
                            Event("create_semaphore", 0, 0)>>]
          [] fail = "command_buffer" ->
               [ok |-> FALSE,
                gpu |-> [fenced EXCEPT !.semaphores = @ \cup {0 - id}],
                trace |-> <<Event("create_fence", id, 1),
                            Event("create_semaphore", 0 - id, 1),
                            Event("allocate_command_buffers", 0, 0)>>]
          [] OTHER ->
               [ok |-> TRUE,
                gpu |-> [fenced EXCEPT !.semaphores = @ \cup {0 - id},
                                       !.command_buffers = @ \cup {id}],
                per_frame |-> [framebuffer |-> Null, command_buffer |-> id,
                               fence |-> id, semaphore |-> 0 - id],
                trace |-> <<Event("create_fence", id, 1),
                            Event("create_semaphore", 0 - id, 1),
                            Event("allocate_command_buffers", id, 1)>>]

\* PerFrame::new; fail: the creation that fails ("none" if none does).  The
\* scope guards destroy what was created, in reverse order.
PerFrame_new(g, fail) ==
    LET id == Fresh(UsedHandles(g))
        fenced == create_fence(g, id, TRUE)
    IN  CASE fail = "fence" ->
               [ok |-> FALSE, gpu |-> g,
                trace |-> <<Event("create_fence", 0, 0)>>]
          [] fail = "semaphore" ->
               [ok |-> FALSE, gpu |-> destroy_fence(fenced, id),
                trace |-> <<Event("create_fence", id, 1),
                            Event("create_semaphore", 0, 0),
                            Event("destroy_fence", id, 0)>>]
          [] fail = "command_buffer" ->
               [ok |-> FALSE, gpu |-> destroy_fence(fenced, id),
                trace |-> <<Event("create_fence", id, 1),
                            Event("create_semaphore", 0 - id, 1),
                            Event("allocate_command_buffers", 0, 0),
                            Event("destroy_semaphore", 0 - id, 0),
                            Event("destroy_fence", id, 0)>>]
          [] OTHER ->
               [ok |-> TRUE,
                gpu |-> [fenced EXCEPT !.semaphores = @ \cup {0 - id},
                                       !.command_buffers = @ \cup {id}],
                per_frame |-> [framebuffer |-> Null, command_buffer |-> id,
                               fence |-> id, semaphore |-> 0 - id],
                trace |-> <<Event("create_fence", id, 1),
                            Event("create_semaphore", 0 - id, 1),
                            Event("allocate_command_buffers", id, 1)>>]

\* a removal that destroys the framebuffer and keeps its handle
remove_framebuffer_keep_handle(g, pf) ==
    [gpu |-> [g EXCEPT !.live_framebuffers = @ \ {pf.framebuffer}],
     per_frame |-> pf,
     trace |-> <<Event("destroy_framebuffer", pf.framebuffer, 0)>>]

\* PerFrame::remove_framebuffer
remove_framebuffer(g, pf) ==
    [gpu |-> [g EXCEPT !.live_framebuffers = @ \ {pf.framebuffer}],
     per_frame |-> [pf EXCEPT !.framebuffer = Null],
     trace |-> <<Event("destroy_framebuffer", pf.framebuffer, 0)>>]

\* PerFrame::place_framebuffer; code: the result of create_framebuffer
place_framebuffer(g, pf, code) ==
    IF code = Success
    THEN [ok |-> TRUE,
          gpu |-> [g EXCEPT !.live_framebuffers =
                                @ \cup {Fresh(g.live_framebuffers)}],
          per_frame |-> [pf EXCEPT !.framebuffer = Fresh(g.live_framebuffers)],
          trace |-> <<Event("create_framebuffer",
                            Fresh(g.live_framebuffers), 1)>>]
    ELSE [ok |-> FALSE, gpu |-> g, per_frame |-> pf,
          trace |-> <<Event("create_framebuffer", 0, 0)>>]

\* a destroy that keeps the fence, the semaphore and the command buffer
PerFrame_destroy_framebuffer_only(g, pf) ==
    [gpu |-> [g EXCEPT !.live_framebuffers = @ \ {pf.framebuffer}],
     trace |-> IF pf.framebuffer # Null
               THEN <<Event("destroy_framebuffer", pf.framebuffer, 0)>>
               ELSE << >>]

\* PerFrame::destroy
PerFrame_destroy(g, pf) ==
    [gpu |-> [g EXCEPT !.live_framebuffers = @ \ {pf.framebuffer},
                       !.fences = @ \ {pf.fence},
                       !.signaled = @ \ {pf.fence},
                       !.semaphores = @ \ {pf.semaphore},
                       !.command_buffers = @ \ {pf.command_buffer}],
     trace |-> (IF pf.framebuffer # Null
                THEN <<Event("destroy_framebuffer", pf.framebuffer, 0)>>
                ELSE << >>)
               \o <<Event("destroy_fence", pf.fence, 0),
                    Event("destroy_semaphore", pf.semaphore, 0),
                    Event("free_command_buffers", pf.command_buffer, 0)>>]

\* wait_for_fences(fence, u64::MAX) returns SUCCESS only once the fence is
\* signaled; until then the call has not returned
WaitReturns(g, fence, code) == code = Success => fence \in g.signaled

\* RenderPass::notify_destroy_images; waits: the results of the waits (the
\* code drops them)
RECURSIVE RemoveFramebuffers(_, _, _)
RemoveFramebuffers(frames, g, i) ==
    IF i > Len(frames)
    THEN [frames |-> frames, gpu |-> g, trace |-> << >>]
    ELSE The({After(r.trace,
                    RemoveFramebuffers([frames EXCEPT ![i] = r.per_frame],
                                       r.gpu, i + 1)) :
              r \in {remove_framebuffer(g, frames[i])}})

\* a notification that destroys the framebuffers before it waits
notify_destroy_images_wait_last(frames, g, waits) ==
    LET waited == [i \in DOMAIN frames |->
                      Event("wait_for_fences", frames[i].fence,
                            B(waits[i] = Success))]
    IN  The({[frames |-> r.frames, gpu |-> r.gpu,
              trace |-> <<Event("notify_destroying_output", 0, 0)>>
                        \o r.trace \o waited] :
             r \in {RemoveFramebuffers(frames, g, 1)}})

notify_destroy_images(frames, g, waits) ==
    LET waited == [i \in DOMAIN frames |->
                      Event("wait_for_fences", frames[i].fence,
                            B(waits[i] = Success))]
    IN  After(waited \o <<Event("notify_destroying_output", 0, 0)>>,
              RemoveFramebuffers(frames, g, 1))

\* the `Less` arm of notify_new_images: per_frame.drain(from..), destroying
RECURSIVE DrainDestroy(_, _, _)
DrainDestroy(frames, g, from) ==
    IF from > Len(frames)
    THEN [gpu |-> g, trace |-> << >>]
    ELSE The({After(d.trace, DrainDestroy(frames, d.gpu, from + 1)) :
              d \in {PerFrame_destroy(g, frames[from])}})

\* a drop that destroys the render pass and the command pool before the
\* per-frame records
RenderPass_drop_pool_first(frames, g) ==
    The({[per_frame |-> << >>, gpu |-> d.gpu,
          render_pass |-> "destroyed", command_pool |-> "destroyed",
          trace |-> <<Event("destroy_render_pass", 0, 0),
                      Event("destroy_command_pool", 0, 0)>> \o d.trace] :
         d \in {DrainDestroy(frames, g, 1)}})

\* Drop for RenderPass: per_frame.drain(..) destroying each record, then the
\* render pass, then the command pool; no fence is waited on
RenderPass_drop(frames, g) ==
    The({[per_frame |-> << >>, gpu |-> d.gpu,
          render_pass |-> "destroyed", command_pool |-> "destroyed",
          trace |-> d.trace \o <<Event("destroy_render_pass", 0, 0),
                                 Event("destroy_command_pool", 0, 0)>>] :
         d \in {DrainDestroy(frames, g, 1)}})

\* the `Greater` arm: PerFrame::new and push until there are n records; the
\* call number nat.grow_at fails at nat.grow
RECURSIVE Grow(_, _, _, _, _)
Grow(frames, g, n, nat, k) ==
    IF Len(frames) >= n
    THEN [ok |-> TRUE, frames |-> frames, gpu |-> g, trace |-> << >>]
    ELSE The({IF ~p.ok
              THEN [ok |-> FALSE, frames |-> frames, gpu |-> p.gpu,
                    trace |-> p.trace]
              ELSE After(p.trace, Grow(Append(frames, p.per_frame), p.gpu, n,
                                       nat, k + 1)) :
              p \in {PerFrame_new(g, IF nat.grow_at = k + 1 THEN nat.grow
                                     ELSE "none")}})

\* the last loop: place_framebuffer on every record; the creation for
\* record fb_at fails (0: none)
RECURSIVE PlaceAll(_, _, _, _)
PlaceAll(frames, g, i, fb_at) ==
    IF i > Len(frames)
    THEN [ok |-> TRUE, frames |-> frames, gpu |-> g, trace |-> << >>]
    ELSE The({IF ~p.ok
              THEN [ok |-> FALSE, frames |-> frames, gpu |-> p.gpu,
                    trace |-> p.trace]
              ELSE After(p.trace, PlaceAll([frames EXCEPT ![i] = p.per_frame],
                                           p.gpu, i + 1, fb_at)) :
              p \in {place_framebuffer(g, frames[i],
                                       IF fb_at = i THEN OutOfMemory
                                       ELSE Success)}})

\* the first part of notify_new_images: the per-frame records are brought
\* to n
Resize(frames, g, n, nat) ==
    IF n < Len(frames)
    THEN The({[ok |-> TRUE, frames |-> SubSeq(frames, 1, n), gpu |-> d.gpu,
               trace |-> d.trace] : d \in {DrainDestroy(frames, g, n + 1)}})
    ELSE Grow(frames, g, n, nat, 0)

\* the rest of it: the attachments are told, the framebuffers are restored
Restore(sized, n, nat) ==
    IF ~sized.ok
    THEN [frames |-> sized.frames, gpu |-> sized.gpu,
          code |-> OutOfMemory, trace |-> sized.trace]
    ELSE IF nat.attach # Success
    THEN [frames |-> sized.frames, gpu |-> sized.gpu, code |-> nat.attach,
          trace |-> sized.trace \o <<Event("notify_output_changed", n, 0)>>]
    ELSE The({[frames |-> placed.frames, gpu |-> placed.gpu,
               code |-> IF placed.ok THEN Success ELSE OutOfMemory,
               trace |-> sized.trace
                         \o <<Event("notify_output_changed", n, 1)>>
                         \o placed.trace] :
              placed \in {PlaceAll(sized.frames, sized.gpu, 1, nat.fb_at)}})

\* RenderPass::notify_new_images for n images; nat: [grow, grow_at, attach,
\* fb_at], attach being the result of the attachments' notify_output_changed
notify_new_images(frames, g, n, nat) ==
    The({Restore(sized, n, nat) : sized \in {Resize(frames, g, n, nat)}})

\* a list that moves to the next subpass after every subpass
SubpassList_record_trailing(n, cmd) ==
    [j \in 1..(2 * n) |-> IF j % 2 = 1 THEN Event("record", (j + 1) \div 2, cmd)
                          ELSE Event("cmd_next_subpass", cmd, 0)]

\* impl_SubpassList!(alternate, ..): $first; then $e; $rest for each other
RECURSIVE Alternate(_, _, _)
Alternate(k, n, cmd) ==
    IF k > n THEN << >>
    ELSE <<Event("cmd_next_subpass", cmd, 0), Event("record", k, cmd)>>
         \o Alternate(k + 1, n, cmd)

\* SubpassList::record of a tuple of n subpasses
SubpassList_record(n, cmd) ==
    IF n = 0 THEN << >>
    ELSE <<Event("record", 1, cmd)>> \o Alternate(2, n, cmd)

\* the fallible calls of render, in call order
RenderCalls ==
    <<"wait_for_fences", "reset_command_buffer", "begin_command_buffer",
      "end_command_buffer", "reset_fences", "queue_submit">>

\* the number of the call that fails; none: one past the last
FailedCall(fail) ==
    IF fail = "none" THEN Len(RenderCalls) + 1
    ELSE CHOOSE k \in DOMAIN RenderCalls : RenderCalls[k] = fail

\* the GPU's work after queue_submit number k of a render (or its refusal)
Submitted(g, pf, acquire_semaphore, k) ==
    IF k > 6
    THEN [g EXCEPT !.signaled = @ \ {pf.fence},
                   !.pending = @ \cup {[command_buffer |-> pf.command_buffer,
                                        fence |-> pf.fence,
                                        wait |-> acquire_semaphore,
                                        signal |-> pf.semaphore]}]
    ELSE IF k > 5 THEN [g EXCEPT !.signaled = @ \ {pf.fence}]
    ELSE g

\* a render that resets the command buffer without waiting on the fence
render_without_wait(r, g, index, acquire_semaphore, fail) ==
    LET pf == r.per_frame[index + 1]
        k == IF fail = "wait_for_fences" THEN 2 ELSE FailedCall(fail)
    IN  [returns |-> TRUE,
         gpu |-> Submitted(g, pf, acquire_semaphore, k),
         code |-> IF k > 6 THEN Success ELSE OutOfMemory,
         pushed |-> IF k > 6 THEN <<pf.semaphore>> ELSE << >>,
         trace |-> <<Event("reset_command_buffer", pf.command_buffer, B(k > 2))>>
                   \o (IF k > 6
                       THEN <<Event("queue_submit", pf.command_buffer, 1)>>
                       ELSE << >>)]

\* a render that resets the fence after the submission
render_reset_after_submit(r, g, index, acquire_semaphore, fail) ==
    LET pf == r.per_frame[index + 1]
        cmd == pf.command_buffer
        k == FailedCall(fail)
    IN  [returns |-> WaitReturns(g, pf.fence,
                                 IF k > 1 THEN Success ELSE OutOfMemory),
         gpu |-> Submitted(g, pf, acquire_semaphore, k),
         code |-> IF k > 6 THEN Success ELSE OutOfMemory,
         pushed |-> IF k > 6 THEN <<pf.semaphore>> ELSE << >>,
         trace |-> IF k > 6
                   THEN <<Event("wait_for_fences", pf.fence, 1),
                          Event("reset_command_buffer", cmd, 1),
                          Event("begin_command_buffer", cmd, 1),
                          Event("cmd_begin_render_pass", cmd, pf.framebuffer)>>
                        \o SubpassList_record(r.subpasses, cmd)
                        \o <<Event("cmd_end_render_pass", cmd, 0),
                             Event("end_command_buffer", cmd, 1),
                             Event("queue_submit", cmd, 1),
                             Event("reset_fences", pf.fence, 1),
                             Event("push_wait_semaphore", pf.semaphore, 0)>>
                   ELSE <<Event("wait_for_fences", pf.fence, 0)>>]

\* RenderPass::render for the image `index`; fail: the call that fails
render(r, g, index, acquire_semaphore, fail) ==
    LET pf == r.per_frame[index + 1]
        cmd == pf.command_buffer
        k == FailedCall(fail)
    IN  [\* the first call returns: wait_for_fences blocks on the fence
         returns |-> WaitReturns(g, pf.fence,
                                 IF k > 1 THEN Success ELSE OutOfMemory),
         gpu |-> Submitted(g, pf, acquire_semaphore, k),
         code |-> IF k > 6 THEN Success ELSE OutOfMemory,
         \* what render appends to the context's wait list
         pushed |-> IF k > 6 THEN <<pf.semaphore>> ELSE << >>,
         trace |->
            <<Event("wait_for_fences", pf.fence, B(k > 1))>>
            \o (IF k > 1
                THEN <<Event("reset_command_buffer", cmd, B(k > 2))>>
                ELSE << >>)
            \o (IF k > 2
                THEN <<Event("begin_command_buffer", cmd, B(k > 3))>>
                ELSE << >>)
            \o (IF k > 3
                THEN <<Event("cmd_begin_render_pass", cmd, pf.framebuffer)>>
                     \o SubpassList_record(r.subpasses, cmd)
                     \o <<Event("cmd_end_render_pass", cmd, 0),
                          Event("end_command_buffer", cmd, B(k > 4))>>
                ELSE << >>)
            \o (IF k > 4
                THEN <<Event("reset_fences", pf.fence, B(k > 5))>>
                ELSE << >>)
            \o (IF k > 5
                THEN <<Event("queue_submit", cmd, B(k > 6))>>
                ELSE << >>)
            \o (IF k > 6
                THEN <<Event("push_wait_semaphore", pf.semaphore, 0)>>
                ELSE << >>)]

-----------------------------------------------------------------------------
(* RenderPassBuilder *)

\* the attachment types: the TypeId of OutputAttachment and of two others
AttachmentTypes == {"OutputAttachment", "A", "B"}

ColorAttachmentOptimal == "COLOR_ATTACHMENT_OPTIMAL"

None == [some |-> FALSE, value |-> 0]

Some(value) == [some |-> TRUE, value |-> value]

NullPtr == [base |-> "null", offset |-> 0]

\* RenderPassBuilder::default(), about to register `attachments` and then
\* `subpasses` (the attachment type each subpass requests as its color
\* attachment); pc: the part of RenderPass::new that runs next
NewBuilder(attachments, subpasses, pc) ==
    [attachments |-> attachments,
     subpasses |-> subpasses,
     pc |-> pc,
     attachment_descs |-> << >>,
     attachment_ids |-> << >>,
     attachment_refs |-> << >>,
     \* RenderPassBuilder::attachments: the attachment indices requested
     attachment_indices |-> << >>,
     subpass_descs |-> << >>,
     \* subpasses of other kinds, registered after `subpasses`
     requests |-> << >>,
     ret |-> None,
     info |-> [built |-> FALSE, attachment_count |-> 0, subpasses |-> << >>],
     render_pass |-> "none",
     command_pool |-> "none",
     result |-> Err("")]

\* Iterator::position: the index (from 0) of the first element equal to id
position(ids, id) ==
    IF \E i \in DOMAIN ids : ids[i] = id
    THEN Some(The({i \in DOMAIN ids :
                      /\ ids[i] = id
                      /\ \A j \in 1..(i - 1) : ids[j] # id}) - 1)
    ELSE None

register_attachment(b, id) ==
    [b EXCEPT !.attachment_descs = Append(@, id),
              !.attachment_ids = Append(@, id)]

\* a request that refers to the attachment registered last
request_attachment_ref_last(b, id, layout) ==
    IF ~position(b.attachment_ids, id).some
    THEN [b EXCEPT !.ret = None]
    ELSE [b EXCEPT !.attachment_refs =
                       Append(@, [attachment |-> Len(b.attachment_ids) - 1,
                                  layout |-> layout]),
                   !.ret = Some(Len(b.attachment_refs))]

\* a request that refers to attachment 0 when the type is not registered
request_attachment_ref_unchecked(b, id, layout) ==
    LET p == position(b.attachment_ids, id)
    IN  [b EXCEPT !.attachment_refs =
                      Append(@, [attachment |-> IF p.some THEN p.value ELSE 0,
                                 layout |-> layout]),
                  !.ret = Some(Len(b.attachment_refs))]

\* RenderPassBuilder::_request_attachment_ref; ret: the value returned
request_attachment_ref(b, id, layout) ==
    LET p == position(b.attachment_ids, id)
    IN  IF ~p.some
        THEN [b EXCEPT !.ret = None]
        ELSE [b EXCEPT !.attachment_refs =
                           Append(@, [attachment |-> p.value,
                                      layout |-> layout]),
                       !.ret = Some(Len(b.attachment_refs))]

\* RenderPassBuilder::_request_attachment; ret: the value returned
request_attachment(b, id) ==
    LET p == position(b.attachment_ids, id)
    IN  IF ~p.some
        THEN [b EXCEPT !.ret = None]
        ELSE [b EXCEPT !.attachment_indices = Append(@, p.value),
                       !.ret = Some(Len(b.attachment_indices))]

\* usize::MAX, which register_subpass stores for a subpass without
\* depth/stencil attachment: no index of a list
UsizeMax == 0 - 1

\* Subpass::register as EmptySubpass does it, for a subpass whose color
\* attachment is of type id (OutputAttachment for EmptySubpass)
Subpass_register(b, id) ==
    The({[builder |-> requested,
          result |-> IF requested.ret.some THEN Ok
                     ELSE Err("MissingAttachment"),
          desc |-> [depth_stencil_attachment |-> None,
                    first_input_attachment |-> 0,
                    input_attachment_count |-> 0,
                    first_color_attachment |-> requested.ret.value,
                    color_attachment_count |-> B(requested.ret.some),
                    first_preserve_attachment |-> 0,
                    preserve_attachment_count |-> 0]] :
         requested \in {request_attachment_ref(b, id,
                                               ColorAttachmentOptimal)}})

\* n requests of a reference to the attachment type id
RECURSIVE RequestRefs(_, _, _, _)
RequestRefs(b, id, layout, n) ==
    IF n = 0 THEN b
    ELSE RequestRefs(request_attachment_ref(b, id, layout), id, layout, n - 1)

\* n requests of the index of the attachment type id
RECURSIVE RequestAttachments(_, _, _)
RequestAttachments(b, id, n) ==
    IF n = 0 THEN b
    ELSE RequestAttachments(request_attachment(b, id), id, n - 1)

\* Subpass::register of a subpass that requests, for the attachment type
\* sub.of, sub.colors color references, then sub.inputs input references,
\* then a depth/stencil reference if sub.depth, then sub.preserves
\* attachment indices, and describes the ranges it was given
GenericSubpass_register(b, sub) ==
    IF /\ sub.colors + sub.inputs + sub.preserves + B(sub.depth) > 0
       /\ ~position(b.attachment_ids, sub.of).some
    THEN [builder |-> [b EXCEPT !.ret = None],
          result |-> Err("MissingAttachment"),
          desc |-> [depth_stencil_attachment |-> None,
                    first_input_attachment |-> 0,
                    input_attachment_count |-> 0,
                    first_color_attachment |-> 0,
                    color_attachment_count |-> 0,
                    first_preserve_attachment |-> 0,
                    preserve_attachment_count |-> 0]]
    ELSE The({[builder |-> RequestAttachments(refs, sub.of, sub.preserves),
               result |-> Ok,
               desc |-> [depth_stencil_attachment |->
                             IF sub.depth
                             THEN Some(Len(b.attachment_refs) + sub.colors
                                       + sub.inputs)
                             ELSE None,
                         first_input_attachment |->
                             Len(b.attachment_refs) + sub.colors,
                         input_attachment_count |-> sub.inputs,
                         first_color_attachment |-> Len(b.attachment_refs),
                         color_attachment_count |-> sub.colors,
                         first_preserve_attachment |->
                             Len(b.attachment_indices),
                         preserve_attachment_count |-> sub.preserves]] :
              refs \in {RequestRefs(
                            RequestRefs(
                                RequestRefs(b, sub.of, ColorAttachmentOptimal,
                                            sub.colors),
                                sub.of, "SHADER_READ_ONLY_OPTIMAL",
                                sub.inputs),
                            sub.of, "DEPTH_STENCIL_ATTACHMENT_OPTIMAL",
                            B(sub.depth))}})

\* RenderPassBuilder::register_subpass after subpass.register(self): the
\* indices are kept in the pointer fields until build
PushSubpass(r) ==
    IF r.result # Ok
    THEN [builder |-> r.builder, result |-> r.result]
    ELSE [builder |->
             [r.builder EXCEPT !.subpass_descs =
                 Append(@, [color_attachment_count |->
                                r.desc.color_attachment_count,
                            p_color_attachments |->
                                r.desc.first_color_attachment,
                            input_attachment_count |->
                                r.desc.input_attachment_count,
                            p_input_attachments |->
                                r.desc.first_input_attachment,
                            p_depth_stencil_attachment |->
                                IF r.desc.depth_stencil_attachment.some
                                THEN r.desc.depth_stencil_attachment.value
                                ELSE UsizeMax,
                            preserve_attachment_count |->
                                r.desc.preserve_attachment_count,
                            p_preserve_attachments |->
                                r.desc.first_preserve_attachment])],
          result |-> Ok]

\* RenderPassBuilder::register_subpass of an EmptySubpass
register_subpass(b, id) ==
    The({PushSubpass(r) : r \in {Subpass_register(b, id)}})

\* RenderPassBuilder::register_subpass of a subpass of another kind
register_generic_subpass(b, sub) ==
    The({PushSubpass(r) : r \in {GenericSubpass_register(b, sub)}})

\* as_ptr().wrapping_add(index) into the list `base`
Ptr(base, index) == [base |-> base, offset |-> index]

\* a build that looks every range up in the list of references
build_single_array(b) ==
    [built |-> TRUE,
     attachment_count |-> Len(b.attachment_descs),
     subpasses |->
        [k \in DOMAIN b.subpass_descs |->
            LET desc == b.subpass_descs[k]
            IN  [color_attachment_count |-> desc.color_attachment_count,
                 p_color_attachments |->
                     IF desc.color_attachment_count > 0
                     THEN Ptr("attachment_refs", desc.p_color_attachments)
                     ELSE NullPtr,
                 input_attachment_count |-> desc.input_attachment_count,
                 p_input_attachments |->
                     IF desc.input_attachment_count > 0
                     THEN Ptr("attachment_refs", desc.p_input_attachments)
                     ELSE NullPtr,
                 p_depth_stencil_attachment |->
                     IF desc.p_depth_stencil_attachment # UsizeMax
                     THEN Ptr("attachment_refs",
                              desc.p_depth_stencil_attachment)
                     ELSE NullPtr,
                 preserve_attachment_count |->
                     desc.preserve_attachment_count,
                 p_preserve_attachments |->
                     IF desc.preserve_attachment_count > 0
                     THEN Ptr("attachment_refs", desc.p_preserve_attachments)
                     ELSE NullPtr]]]

\* RenderPassBuilder::build: the indices become pointers into
\* attachment_refs and attachments
build(b) ==
    [built |-> TRUE,
     attachment_count |-> Len(b.attachment_descs),
     subpasses |->
        [k \in DOMAIN b.subpass_descs |->
            LET desc == b.subpass_descs[k]
            IN  [color_attachment_count |-> desc.color_attachment_count,
                 p_color_attachments |->
                     IF desc.color_attachment_count > 0
                     THEN Ptr("attachment_refs", desc.p_color_attachments)
                     ELSE NullPtr,
                 input_attachment_count |-> desc.input_attachment_count,
                 p_input_attachments |->
                     IF desc.input_attachment_count > 0
                     THEN Ptr("attachment_refs", desc.p_input_attachments)
                     ELSE NullPtr,
                 p_depth_stencil_attachment |->
                     IF desc.p_depth_stencil_attachment # UsizeMax
                     THEN Ptr("attachment_refs",
                              desc.p_depth_stencil_attachment)
                     ELSE NullPtr,
                 preserve_attachment_count |->
                     desc.preserve_attachment_count,
                 p_preserve_attachments |->
                     IF desc.preserve_attachment_count > 0
                     THEN Ptr("attachments", desc.p_preserve_attachments)
                     ELSE NullPtr]]]

\* the attachment reference a pointer of the built descriptor points to
Deref(b, ptr) == b.attachment_refs[ptr.offset + 1]

\* From<VulkanError> for RenderPassError
vk_to_render_pass_err(code) == UnexpectedError(code)

-----------------------------------------------------------------------------
(* Surface::new and Surface::capabilities *)

\* swapchain_info::sanitize_assumed_capabilities
sanitize_assumed_capabilities(caps) ==
    IF caps.max_image_array_layers < 1 THEN Err("NotSupported")
    ELSE IF ~caps.color_attachment THEN Err("NotSupported")
    ELSE Ok

\* a query that does not look at the capabilities it assumes
swapchain_info_query_unsanitized(nat) ==
    IF nat.caps.code # Success
    THEN [result |-> UnexpectedError(nat.caps.code), present_modes |-> 0,
          trace |-> <<Event("get_capabilities", 0, 0)>>]
    ELSE [result |-> Ok, present_modes |-> nat.modes.modes,
          trace |-> <<Event("get_capabilities", 1, 0)>>]

\* swapchain_info::query; nat: the answers of the three native queries.
\* The capability query's error is converted with From (never typed).
swapchain_info_query(nat) ==
    IF nat.caps.code # Success
    THEN [result |-> UnexpectedError(nat.caps.code), present_modes |-> 0,
          trace |-> <<Event("get_capabilities", 0, 0)>>]
    ELSE IF sanitize_assumed_capabilities(nat.caps) # Ok
    THEN [result |-> sanitize_assumed_capabilities(nat.caps),
          present_modes |-> 0,
          trace |-> <<Event("get_capabilities", 1, 0)>>]
    ELSE IF ~nat.caps.composite_alpha
    THEN [result |-> Err("NotSupported"), present_modes |-> 0,
          trace |-> <<Event("get_capabilities", 1, 0)>>]
    ELSE IF nat.formats.code # Success
    THEN [result |-> UnexpectedError(nat.formats.code), present_modes |-> 0,
          trace |-> <<Event("get_capabilities", 1, 0),
                      Event("get_formats", 0, 0)>>]
    ELSE IF nat.formats.count = 0
    THEN [result |-> Err("NotSupported"), present_modes |-> 0,
          trace |-> <<Event("get_capabilities", 1, 0),
                      Event("get_formats", 1, 0)>>]
    ELSE IF nat.modes.code # Success
    THEN [result |-> UnexpectedError(nat.modes.code), present_modes |-> 0,
          trace |-> <<Event("get_capabilities", 1, 0),
                      Event("get_formats", 1, 1),
                      Event("get_present_modes", 0, 0)>>]
    ELSE [result |-> Ok, present_modes |-> nat.modes.modes,
          trace |-> <<Event("get_capabilities", 1, 0),
                      Event("get_formats", 1, 1),
                      Event("get_present_modes", 1, nat.modes.modes)>>]

NoCapabilities ==
    [max_size |-> [some |-> FALSE, w |-> 0, h |-> 0],
     min_size |-> <<0, 0>>,
     present_modes |-> 0]

\* Surface::new; nat: the outcome of window::create_surface and the answers
\* of the native queries.  The ScopeGuard destroys the native surface when
\* the query fails.
Surface_new(nat) ==
    IF nat.create # Ok
    THEN [result |-> nat.create, native_surface |-> "none",
          present_modes |-> 0, trace |-> <<Event("create_surface", 0, 0)>>]
    ELSE The({[result |-> q.result,
               native_surface |-> IF q.result = Ok THEN "live"
                                  ELSE "destroyed",
               present_modes |-> q.present_modes,
               trace |-> <<Event("create_surface", 1, 0)>> \o q.trace
                         \o (IF q.result = Ok THEN << >>
                             ELSE <<Event("destroy_surface", 0, 0)>>)] :
              q \in {swapchain_info_query(nat)}})

\* Surface::capabilities; native: the answer of the native capability query
Surface_capabilities(s, native) ==
    IF native.code # Success
    THEN [result |-> vk_to_surface_err(native.code), caps |-> NoCapabilities]
    ELSE [result |-> Ok, caps |-> Capabilities(s, native)]

-----------------------------------------------------------------------------
(* Inputs *)

\* the present modes the surface reports at construction (SwapchainInfo)
SupportedModeSets == {ModeBit(Fifo) + ModeBit(Mailbox)}

Config(width, height, present_mode) ==
    [width |-> width, height |-> height, present_mode |-> present_mode]

\* the configurations a caller asks for: no width, no height, the smallest
\* size, a wide and a tall one, and one with a present mode the surface
\* does not support
Configs ==
    {Config(0, 1, Fifo), Config(1, 0, Fifo), Config(1, 1, Fifo),
     Config(MaxDim, 1, Fifo), Config(1, MaxDim, Fifo),
     Config(1, 1, Immediate)}

\* answers of the native capability query: failures, and extent bounds
\* (a zero maximum extent means that the surface reports none)
NativeCaps ==
    {[code |-> Success, min |-> <<0, 0>>, max |-> <<0, 0>>],
     [code |-> Success, min |-> <<1, 1>>, max |-> <<1, MaxDim>>],
     [code |-> Success, min |-> <<MaxDim, 1>>, max |-> <<MaxDim, 0>>]}

CapsResults ==
    NativeCaps
    \cup {[code |-> "ERROR_SURFACE_LOST_KHR", min |-> <<0, 0>>, max |-> <<0, 0>>]}

NoCaps == [code |-> "", min |-> <<0, 0>>, max |-> <<0, 0>>]

ConfigureErrors == {"ERROR_SURFACE_LOST_KHR", "ERROR_DEVICE_LOST"}

\* the results of the native calls of one configure: a call that is not
\* reached (an earlier one failed) is listed once, as SUCCESS
ConfigureNatives ==
    {n \in [create : {Success} \cup ConfigureErrors,
            images : {Success, "ERROR_DEVICE_LOST"},
            count : 1..MaxImages,
            notify : {Success, "ERROR_DEVICE_LOST"}] :
        /\ n.create # Success
              => n.images = Success /\ n.count = 1 /\ n.notify = Success
        /\ n.images # Success => n.count = 1 /\ n.notify = Success}

\* the same for a Surface without contents: no notification
SurfaceNatives == {n \in ConfigureNatives : n.notify = Success}

\* the results of the native calls of one present; Fns::queue_present
\* reports every code but SUCCESS as an error, SUBOPTIMAL_KHR included
PresentNatives(s) ==
    {n \in [semaphore : {Success, "ERROR_DEVICE_LOST"},
            acquire : {Success, "SUBOPTIMAL_KHR"} \cup VkErrors,
            index : IF s.images = << >> THEN {0} ELSE 0..(Len(s.images) - 1),
            render : {Success, "ERROR_DEVICE_LOST"},
            present : VkResults \cup {"SUBOPTIMAL_KHR"}] :
        /\ n.semaphore # Success => n.acquire = Success
        \* the code ignores the suboptimal flag: one such frame is enough
        /\ n.acquire = "SUBOPTIMAL_KHR"
              => n.render = Success /\ n.present = Success
        /\ n.acquire \notin {Success, "SUBOPTIMAL_KHR"}
              => n.index = 0 /\ n.render = Success
        /\ n.render # Success => n.present = Success}

\* the safety condition of configure_unchecked: some answer of the
\* capability query accepts the config
Compatible(s, config) ==
    /\ config.width > 0
    /\ config.height > 0
    /\ \E caps \in NativeCaps :
          /\ IsSizeValid(Capabilities(s, caps), config.width, config.height)
          /\ IsPresentModeValid(Capabilities(s, caps), config.present_mode)

\* the native results that matter to a configure with this config and this
\* answer of the capability query: all of them if the swapchain calls are
\* reached, and one (never read) if configure returns before them
NativesFor(s, config, caps, natives) ==
    IF caps.code = Success /\ IsConfigValid(Capabilities(s, caps), config)
    THEN natives
    ELSE {[create |-> Success, images |-> Success, count |-> 1,
           notify |-> Success]}

\* the native layer creates at most MaxSwapchains swapchains in a run
MayCreate(nat) == nat.create = Success => vk.swapchains < MaxSwapchains

Record(op, config, caps, r) ==
    [op |-> op, config |-> config, caps |-> caps,
     pool |-> surface.semaphore_pool,
     result |-> r.result, trace |-> r.trace]

-----------------------------------------------------------------------------
(* A Surface whose contents are a RenderPass with one OutputAttachment *)

\* the image view that create_image_view makes of an image
View(image) == [image |-> image]

\* OutputAttachment::notify_destroying_output: views.drain(..), each view
\* destroyed
OutputAttachment_notify_destroying_output(views) == << >>

\* OutputAttachment::notify_output_changed: a view of each image is pushed;
\* the creation number view_at fails (0: none), the views pushed before it
\* stay
OutputAttachment_notify_output_changed(views, images, view_at) ==
    LET made == IF view_at = 0 THEN Len(images) ELSE view_at - 1
    IN  [views |-> views \o [i \in 1..made |-> View(images[i])],
         code |-> IF view_at = 0 THEN Success ELSE OutOfMemory]

\* SurfaceWithContents::configure_unchecked, its first statement, on a
\* RenderPass: notify_destroy_images if the contents are valid
Whole_notify_destroy(r, g, cv, nat) ==
    IF cv
    THEN The({[frames |-> d.frames, gpu |-> d.gpu,
               views |-> OutputAttachment_notify_destroying_output(r.views),
               trace |-> <<Event("notify_destroy_images",
                                 Len(r.per_frame), 0)>> \o d.trace] :
              d \in {notify_destroy_images(r.per_frame, g, nat.waits)}})
    ELSE [frames |-> r.per_frame, gpu |-> g, views |-> r.views,
          trace |-> << >>]

\* RenderPass::notify_new_images for the images of the surface; d: the
\* contents after the first statement
Whole_notify_new(r, d, images, nat) ==
    The({The({[rp |-> [r EXCEPT !.per_frame = n.frames,
                                !.images = Len(images),
                                \* the attachments are told only if the
                                \* per-frame records could be made
                                !.views = IF Resize(d.frames, d.gpu,
                                                    Len(images), nat).ok
                                          THEN a.views ELSE d.views],
               gpu |-> n.gpu,
               code |-> n.code,
               trace |-> <<Event("notify_new_images", Len(images),
                                 B(n.code = Success))>> \o n.trace] :
              n \in {notify_new_images(d.frames, d.gpu, Len(images),
                                       [grow |-> nat.grow,
                                        grow_at |-> nat.grow_at,
                                        attach |-> a.code,
                                        fb_at |-> nat.fb_at])}}) :
         a \in {OutputAttachment_notify_output_changed(d.views, images,
                                                       nat.view_at)}})

\* a configure_unchecked that sets the flag whatever notify_new_images
\* returned
Whole_configure_unchecked_always_valid(s, v, r, g, cv, config, nat) ==
    The({The({IF c.result # Ok
              THEN [surface |-> c.surface, vk |-> c.vk,
                    rp |-> [r EXCEPT !.per_frame = d.frames,
                                     !.views = d.views],
                    gpu |-> d.gpu, contents_valid |-> FALSE,
                    result |-> c.result, trace |-> d.trace \o c.trace]
              ELSE The({[surface |-> c.surface, vk |-> c.vk,
                         rp |-> n.rp, gpu |-> n.gpu,
                         contents_valid |-> TRUE,
                         result |-> IF n.code = Success THEN Ok
                                    ELSE UnexpectedError(n.code),
                         trace |-> d.trace \o c.trace \o n.trace] :
                        n \in {Whole_notify_new(r, d, c.surface.images,
                                                nat)}}) :
              c \in {configure_unchecked(s, v, config, nat)}}) :
         d \in {Whole_notify_destroy(r, g, cv, nat)}})

\* SurfaceWithContents::configure_unchecked on a RenderPass; nat: the native
\* results [create, images, count, waits, grow, grow_at, view_at, fb_at]
Whole_configure_unchecked(s, v, r, g, cv, config, nat) ==
    The({The({IF c.result # Ok
              THEN [surface |-> c.surface, vk |-> c.vk,
                    rp |-> [r EXCEPT !.per_frame = d.frames,
                                     !.views = d.views],
                    gpu |-> d.gpu, contents_valid |-> FALSE,
                    result |-> c.result, trace |-> d.trace \o c.trace]
              ELSE The({[surface |-> c.surface, vk |-> c.vk,
                         rp |-> n.rp, gpu |-> n.gpu,
                         contents_valid |-> (n.code = Success),
                         result |-> IF n.code = Success THEN Ok
                                    ELSE UnexpectedError(n.code),
                         trace |-> d.trace \o c.trace \o n.trace] :
                        n \in {Whole_notify_new(r, d, c.surface.images,
                                                nat)}}) :
              c \in {configure_unchecked(s, v, config, nat)}}) :
         d \in {Whole_notify_destroy(r, g, cv, nat)}})

\* SurfaceWithContents::configure on a RenderPass
Whole_configure(s, v, r, g, cv, config, caps, nat) ==
    IF caps.code # Success
    THEN [surface |-> s, vk |-> v, rp |-> r, gpu |-> g,
          contents_valid |-> cv,
          result |-> vk_to_surface_err(caps.code),
          trace |-> <<Event("get_capabilities", 0, 0)>>]
    ELSE IF ~IsConfigValid(Capabilities(s, caps), config)
         THEN [surface |-> s, vk |-> v, rp |-> r, gpu |-> g,
               contents_valid |-> cv,
               result |-> Err("InvalidConfig"),
               trace |-> <<Event("get_capabilities", 1, 0)>>]
         ELSE After(<<Event("get_capabilities", 1, 0)>>,
                    Whole_configure_unchecked(s, v, r, g, cv, config, nat))

\* the unchecked indexing of a present: images.get_unchecked(index) in
\* Surface::present and per_frame.get_unchecked_mut(index) in render
InRange(s, r, index) ==
    index + 1 <= Len(s.images) /\ index + 1 <= Len(r.per_frame)

\* a present that keeps the wait list of the call before it
Whole_present_live_no_clear(s, v, r, g, nat) ==
    LET got == PoolGet(s.semaphore_pool, v, nat.semaphore)
        acquired == Event("acquire_next_image", got.semaphore,
                          IF nat.acquire \in {Success, "SUBOPTIMAL_KHR"}
                          THEN nat.index ELSE 0 - 1)
        released == [s EXCEPT !.semaphore_pool =
                                  SemaphoreInPool_drop(got.pool,
                                                       got.semaphore)]
        give == <<Event("give_back", got.semaphore, 0)>>
    IN  IF ~got.ok
        THEN [returns |-> TRUE, undefined |-> FALSE, surface |-> s,
              vk |-> got.vk, gpu |-> g, result |-> got.result,
              trace |-> got.trace]
        ELSE IF nat.acquire \notin {Success, "SUBOPTIMAL_KHR"}
        THEN [returns |-> TRUE, undefined |-> FALSE, surface |-> released,
              vk |-> got.vk, gpu |-> g,
              result |-> vk_to_present_err(nat.acquire),
              trace |-> got.trace \o <<acquired>> \o give]
        ELSE IF ~InRange(s, r, nat.index)
        THEN [returns |-> TRUE, undefined |-> TRUE, surface |-> released,
              vk |-> got.vk, gpu |-> g, result |-> Ok,
              trace |-> got.trace \o <<acquired>>]
        ELSE The({[returns |-> rendered.returns, undefined |-> FALSE,
                   surface |-> [released EXCEPT !.present_wait_semaphores =
                                    @ \o rendered.pushed],
                   vk |-> got.vk, gpu |-> rendered.gpu,
                   result |-> IF rendered.code # Success
                              THEN UnexpectedError(rendered.code)
                              ELSE IF nat.present = Success THEN Ok
                              ELSE vk_to_present_err(nat.present),
                   trace |-> got.trace
                             \o <<acquired,
                                  Event("render", nat.index,
                                        B(rendered.code = Success))>>
                             \o rendered.trace
                             \o (IF rendered.code = Success
                                 THEN <<Event("queue_present", nat.index,
                                              B(nat.present = Success))>>
                                 ELSE << >>)
                             \o give] :
                  rendered \in {render(r, g, nat.index, got.semaphore,
                                       nat.fail)}})

\* Surface::present on a live swapchain with a RenderPass as its contents;
\* nat: the native results [semaphore, acquire, index, fail, present], fail
\* being the call of render that fails; undefined: an index out of range
\* was used
Whole_present_live(s, v, r, g, nat) ==
    LET got == PoolGet(s.semaphore_pool, v, nat.semaphore)
        acquired == Event("acquire_next_image", got.semaphore,
                          IF nat.acquire \in {Success, "SUBOPTIMAL_KHR"}
                          THEN nat.index ELSE 0 - 1)
        \* the scoped handle is dropped when present returns
        released == [s EXCEPT !.semaphore_pool =
                                  SemaphoreInPool_drop(got.pool,
                                                       got.semaphore)]
        give == <<Event("give_back", got.semaphore, 0)>>
    IN  IF ~got.ok
        THEN [returns |-> TRUE, undefined |-> FALSE, surface |-> s,
              vk |-> got.vk, gpu |-> g, result |-> got.result,
              trace |-> got.trace]
        ELSE IF nat.acquire \notin {Success, "SUBOPTIMAL_KHR"}
        THEN [returns |-> TRUE, undefined |-> FALSE, surface |-> released,
              vk |-> got.vk, gpu |-> g,
              result |-> vk_to_present_err(nat.acquire),
              trace |-> got.trace \o <<acquired>> \o give]
        ELSE IF ~InRange(s, r, nat.index)
        THEN [returns |-> TRUE, undefined |-> TRUE, surface |-> released,
              vk |-> got.vk, gpu |-> g, result |-> Ok,
              trace |-> got.trace \o <<acquired>>]
        ELSE The({[returns |-> rendered.returns, undefined |-> FALSE,
                   \* present_wait_semaphores.clear(), then what render
                   \* pushes
                   surface |-> [released EXCEPT !.present_wait_semaphores =
                                    rendered.pushed],
                   vk |-> got.vk, gpu |-> rendered.gpu,
                   result |-> IF rendered.code # Success
                              THEN UnexpectedError(rendered.code)
                              ELSE IF nat.present = Success THEN Ok
                              ELSE vk_to_present_err(nat.present),
                   trace |-> got.trace
                             \o <<acquired,
                                  Event("render", nat.index,
                                        B(rendered.code = Success))>>
                             \o rendered.trace
                             \o (IF rendered.code = Success
                                 THEN <<Event("queue_present", nat.index,
                                              B(nat.present = Success))>>
                                 ELSE << >>)
                             \o give] :
                  rendered \in {render(r, g, nat.index, got.semaphore,
                                       nat.fail)}})

\* SurfaceWithContents::present on a RenderPass
Whole_present(s, v, r, g, cv, nat) ==
    IF ~cv
    THEN [returns |-> TRUE, undefined |-> FALSE, surface |-> s, vk |-> v,
          gpu |-> g, result |-> Err("OutOfDate"), trace |-> << >>]
    ELSE IF ~is_swapchain_valid(s)
    THEN [returns |-> TRUE, undefined |-> FALSE, surface |-> s, vk |-> v,
          gpu |-> g, result |-> Err("SwapchainRetired"), trace |-> << >>]
    ELSE Whole_present_live(s, v, r, g, nat)

-----------------------------------------------------------------------------
(* utility: read_into_vector *)

Incomplete == "INCOMPLETE"

\* a read_into_vector that extends the container by what the count query
\* reported
RECURSIVE read_into_vector_counted(_, _, _)
read_into_vector_counted(len, script, k) ==
    IF k > Len(script)
    THEN [returned |-> FALSE, result |-> "", len |-> len, rounds |-> k - 1]
    ELSE IF script[k].count_result # Success
    THEN [returned |-> TRUE, result |-> script[k].count_result, len |-> len,
          rounds |-> k]
    ELSE IF script[k].read_result = Success
    THEN [returned |-> TRUE, result |-> Success,
          len |-> len + script[k].count, rounds |-> k]
    ELSE IF script[k].read_result = Incomplete
    THEN read_into_vector_counted(len, script, k + 1)
    ELSE [returned |-> TRUE, result |-> script[k].read_result, len |-> len,
          rounds |-> k]

\* read_into_vector on a container of length len; script: what the native
\* query answers in each round of the loop, from round k on:
\*   [count_result, count]: read(&mut count, null)
\*   [read_result, written]: read(&mut count, data), which sets count to
\*   the number of items it wrote
\* returned: the function has returned within the rounds of the script
RECURSIVE read_into_vector(_, _, _)
read_into_vector(len, script, k) ==
    IF k > Len(script)
    THEN [returned |-> FALSE, result |-> "", len |-> len, rounds |-> k - 1]
    ELSE IF script[k].count_result # Success
    THEN [returned |-> TRUE, result |-> script[k].count_result, len |-> len,
          rounds |-> k]
    \* container.reserve(count) does not change the length
    ELSE IF script[k].read_result = Success
    THEN \* container.assume_init(count): set_len(len + count)
         [returned |-> TRUE, result |-> Success,
          len |-> len + script[k].written, rounds |-> k]
    ELSE IF script[k].read_result = Incomplete
    THEN read_into_vector(len, script, k + 1)
    ELSE [returned |-> TRUE, result |-> script[k].read_result, len |-> len,
          rounds |-> k]

-----------------------------------------------------------------------------
(* swapchain_info: get_min_image_count *)

\* a choice that does not look at the maximum
get_min_image_count_unbounded(caps) ==
    IF caps.min_image_count > 3 THEN caps.min_image_count ELSE 3

\* get_min_image_count
get_min_image_count(caps) ==
    IF caps.min_image_count > 3
    THEN caps.min_image_count
    ELSE IF caps.max_image_count # 0 /\ caps.max_image_count < 3
    THEN caps.max_image_count
    ELSE 3

-----------------------------------------------------------------------------
(* The state after Surface::new and SurfaceWithContents::new *)

InitSurface ==
    /\ \E modes \in SupportedModeSets :
          surface = [swapchain |-> Null,
                     images |-> << >>,
                     semaphore_pool |-> << >>,
                     info_present_modes |-> modes,
                     config |-> [width |-> 0, height |-> 0,
                                 present_mode |-> Fifo],
                     present_wait_semaphores |-> << >>]
    /\ contents_valid = FALSE
    /\ vk = [swapchains |-> 0, live |-> {}, destroyed |-> {},
             double_destroy |-> FALSE, semaphores |-> 0]
    /\ contents = [state |-> "Invalid",
                   new_twice |-> FALSE, destroy_twice |-> FALSE]
    /\ held = {}
    /\ last = [op |-> "new",
               config |-> [width |-> 0, height |-> 0, present_mode |-> Fifo],
               caps |-> NoCaps, pool |-> << >>, result |-> Ok, trace |-> << >>]

\* the constructors have returned: the builder is gone, the Surface is made
InitMade ==
    /\ builder = NewBuilder(<< >>, << >>, "done")
    /\ target = [native_surface |-> "live", made |-> TRUE]
    /\ query = NoQuery

Init ==
    /\ InitSurface
    /\ rp = NewRenderPass(1)
    /\ gpu = NoObjects
    /\ InitMade

-----------------------------------------------------------------------------
(* A Surface used directly *)

SurfaceConfigure ==
    \E config \in Configs, caps \in CapsResults :
      \E nat \in NativesFor(surface, config, caps, SurfaceNatives) :
        /\ MayCreate(nat)
        /\ LET r == configure(surface, vk, config, caps, nat)
           IN  /\ surface' = r.surface
               /\ vk' = r.vk
               /\ last' = Record("configure", config, caps, r)
        /\ UNCHANGED <<contents_valid, contents, held>>
        /\ UNCHANGED others

SurfaceConfigureUnchecked ==
    \E config \in Configs, nat \in SurfaceNatives :
        /\ MayCreate(nat)
        /\ Compatible(surface, config)
        /\ LET r == configure_unchecked(surface, vk, config, nat)
           IN  /\ surface' = r.surface
               /\ vk' = r.vk
               /\ last' = Record("configure_unchecked", config, NoCaps, r)
        /\ UNCHANGED <<contents_valid, contents, held>>
        /\ UNCHANGED others

SurfacePresent ==
    \E nat \in PresentNatives(surface) :
        /\ LET r == present(surface, vk, nat)
           IN  /\ surface' = r.surface
               /\ vk' = r.vk
               /\ last' = Record("present", surface.config, NoCaps, r)
        /\ UNCHANGED <<contents_valid, contents, held>>
        /\ UNCHANGED others

Next == SurfaceConfigure \/ SurfaceConfigureUnchecked \/ SurfacePresent

Spec == Init /\ [][Next]_vars

-----------------------------------------------------------------------------
(* A Surface wrapped in a SurfaceWithContents *)

SwcConfigure ==
    \E config \in Configs, caps \in CapsResults :
      \E nat \in NativesFor(surface, config, caps, ConfigureNatives) :
        /\ MayCreate(nat)
        /\ LET r == Swc_configure(surface, vk, contents_valid, contents,
                                  config, caps, nat)
           IN  /\ surface' = r.surface
               /\ vk' = r.vk
               /\ contents_valid' = r.contents_valid
               /\ contents' = r.contents
               /\ last' = Record("configure", config, caps, r)
        /\ UNCHANGED held
        /\ UNCHANGED others

SwcConfigureUnchecked ==
    \E config \in Configs, nat \in ConfigureNatives :
        /\ MayCreate(nat)
        /\ Compatible(surface, config)
        /\ LET r == Swc_configure_unchecked(surface, vk, contents_valid,
                                            contents, config, nat)
           IN  /\ surface' = r.surface
               /\ vk' = r.vk
               /\ contents_valid' = r.contents_valid
               /\ contents' = r.contents
               /\ last' = Record("configure_unchecked", config, NoCaps, r)
        /\ UNCHANGED held
        /\ UNCHANGED others

SwcPresent ==
    \E nat \in PresentNatives(surface) :
        /\ LET r == Swc_present(surface, vk, contents_valid, nat)
           IN  /\ surface' = r.surface
               /\ vk' = r.vk
               /\ last' = Record("present", surface.config, NoCaps, r)
        /\ UNCHANGED <<contents_valid, contents, held>>
        /\ UNCHANGED others

NextContents == SwcConfigure \/ SwcConfigureUnchecked \/ SwcPresent

SpecContents == Init /\ [][NextContents]_vars

-----------------------------------------------------------------------------
(* The SemaphorePool used on its own: any number of scoped handles *)

Get ==
    \E code \in {Success, "ERROR_DEVICE_LOST"} :
        /\ vk.semaphores < MaxSemaphores \/ surface.semaphore_pool # << >>
        /\ LET g == PoolGet(surface.semaphore_pool, vk, code)
           IN  /\ surface' = [surface EXCEPT !.semaphore_pool = g.pool]
               /\ vk' = g.vk
               /\ held' = IF g.ok THEN held \cup {g.semaphore} ELSE held
               /\ last' = Record("get", surface.config, NoCaps,
                                 [result |-> g.result,
                                  trace |-> g.trace
                                      \o <<Event("get", g.semaphore, 0)>>])
        /\ UNCHANGED <<contents_valid, contents>>
        /\ UNCHANGED others

Drop ==
    \E semaphore \in held :
        /\ surface' = [surface EXCEPT !.semaphore_pool =
                           SemaphoreInPool_drop(@, semaphore)]
        /\ held' = held \ {semaphore}
        /\ last' = Record("give_back", surface.config, NoCaps,
                          [result |-> Ok,
                           trace |-> <<Event("give_back", semaphore, 0)>>])
        /\ UNCHANGED <<contents_valid, contents, vk>>
        /\ UNCHANGED others

NextPool == Get \/ Drop

SpecPool == Init /\ [][NextPool]_vars

-----------------------------------------------------------------------------
(* A RenderPass as the contents of a SurfaceWithContents.  The surface is   *)
(* reduced to what the render pass sees of it: whether the swapchain was    *)
(* replaced, the number of its images, and the index of the acquired image. *)

\* the acquire semaphore of a frame context: the semaphore of the pool
AcquireSemaphore == 1

\* what the native calls of one notify_new_images for `count` images do:
\* all succeed, a PerFrame::new fails, the attachments fail, or a
\* framebuffer creation fails (a call that is not reached is listed once)
NewImagesNatives(count) ==
    LET outcome(grow, grow_at, attach, fb_at) ==
            [swapchain |-> Success, count |-> count, grow |-> grow,
             grow_at |-> grow_at, attach |-> attach, fb_at |-> fb_at]
    IN  {outcome("none", 1, Success, 0)}
        \cup {outcome(stage, at, Success, 0) :
                 stage \in {"fence", "semaphore", "command_buffer"},
                 at \in 1..(count - Len(rp.per_frame))}
        \cup {outcome("none", 1, "ERROR_FORMAT_NOT_SUPPORTED", 0)}
        \cup {outcome("none", 1, Success, at) : at \in 1..count}

\* the results of the waits of notify_destroy_images: all succeed, or the
\* device is lost and none succeeds.  They are made only on valid contents,
\* and the result of a wait on a signaled fence makes no difference (the code
\* drops it).
WaitResults ==
    {[i \in DOMAIN rp.per_frame |-> Success]}
    \cup {[i \in DOMAIN rp.per_frame |->
              IF rp.per_frame[i].fence \in gpu.signaled THEN Success
              ELSE "ERROR_DEVICE_LOST"] : lost \in {contents_valid} \ {FALSE}}

\* the results of the native calls of one configure_unchecked
RpConfigureNatives ==
    LET outcomes == {[swapchain |-> "ERROR_DEVICE_LOST", count |-> 1,
                      grow |-> "none", grow_at |-> 1, attach |-> Success,
                      fb_at |-> 0]}
                    \cup UNION {NewImagesNatives(count) : count \in 1..MaxFrames}
    IN  {[swapchain |-> o.swapchain, count |-> o.count, grow |-> o.grow,
          grow_at |-> o.grow_at, attach |-> o.attach, fb_at |-> o.fb_at,
          waits |-> w] : o \in outcomes, w \in WaitResults}

\* the end of configure_unchecked: d: the contents after the notification
\* of the destruction (if any), n: after the notification of the new images
Rp_configured(r, d, dtrace, n, nat) ==
    IF nat.swapchain # Success
    THEN [rp |-> [r EXCEPT !.per_frame = d.frames, !.images = 0],
          gpu |-> d.gpu, contents_valid |-> FALSE,
          result |-> vk_to_surface_err(nat.swapchain),
          trace |-> dtrace \o <<Event("configure_unchecked", 0, 0)>>]
    ELSE [rp |-> [r EXCEPT !.per_frame = n.frames, !.images = nat.count],
          gpu |-> n.gpu, contents_valid |-> (n.code = Success),
          result |-> IF n.code = Success THEN Ok ELSE UnexpectedError(n.code),
          trace |-> dtrace
                    \o <<Event("configure_unchecked", nat.count, 1),
                         Event("notify_new_images", nat.count,
                               B(n.code = Success))>>
                    \o n.trace]

\* SurfaceWithContents::configure_unchecked on a RenderPass
Rp_configure_unchecked(r, g, cv, nat) ==
    The({The({Rp_configured(r, d,
                            IF cv
                            THEN <<Event("notify_destroy_images",
                                         Len(r.per_frame), 0)>> \o d.trace
                            ELSE << >>,
                            n, nat) :
              n \in {notify_new_images(d.frames, d.gpu, nat.count, nat)}}) :
         d \in {IF cv THEN notify_destroy_images(r.per_frame, g, nat.waits)
                ELSE [frames |-> r.per_frame, gpu |-> g, trace |-> << >>]}})

RpConfigure ==
    \E nat \in RpConfigureNatives :
        /\ contents_valid
              => \A i \in DOMAIN rp.per_frame :
                     WaitReturns(gpu, rp.per_frame[i].fence, nat.waits[i])
        /\ \E r \in {Rp_configure_unchecked(rp, gpu, contents_valid, nat)} :
               /\ Cardinality(r.gpu.live_framebuffers) <= MaxFramebuffers
               /\ rp' = r.rp
               /\ gpu' = r.gpu
               /\ contents_valid' = r.contents_valid
               /\ last' = Record("configure_unchecked", surface.config,
                                 NoCaps, r)
        /\ UNCHANGED <<surface, vk, contents, held>>
        /\ UNCHANGED making

\* SurfaceWithContents::present on a RenderPass, the image `index` acquired
Rp_present(r, g, cv, index, fail) ==
    IF ~cv
    THEN [returns |-> TRUE, gpu |-> g,
          wait_semaphores |-> surface.present_wait_semaphores,
          result |-> Err("OutOfDate"), trace |-> << >>]
    ELSE The({[returns |-> rendered.returns,
               gpu |-> rendered.gpu, wait_semaphores |-> rendered.pushed,
               result |-> IF rendered.code = Success THEN Ok
                          ELSE UnexpectedError(rendered.code),
               trace |-> <<Event("render", index,
                                 B(rendered.code = Success))>>
                         \o rendered.trace] :
              rendered \in {render(r, g, index, AcquireSemaphore, fail)}})

RpPresent ==
    \E index \in 0..(IF rp.images = 0 THEN 0 ELSE rp.images - 1),
       fail \in {"none"} \cup {RenderCalls[k] : k \in DOMAIN RenderCalls} :
        /\ \E r \in {Rp_present(rp, gpu, contents_valid, index, fail)} :
               /\ r.returns
               /\ Cardinality(r.gpu.pending) <= MaxPending
               /\ gpu' = r.gpu
               /\ surface' = [surface EXCEPT !.present_wait_semaphores =
                                                 r.wait_semaphores]
               /\ last' = Record("present", surface.config, NoCaps, r)
        /\ UNCHANGED <<rp, contents_valid, vk, contents, held>>
        /\ UNCHANGED making

\* the GPU completes a submission: it signals the fence it was given
GpuComplete ==
    \E p \in gpu.pending :
        /\ gpu' = [gpu EXCEPT !.pending = @ \ {p},
                              !.signaled = IF p.fence \in gpu.fences
                                           THEN @ \cup {p.fence} ELSE @]
        /\ last' = Record("gpu_complete", surface.config, NoCaps,
                          [result |-> Ok,
                           trace |-> <<Event("complete", p.command_buffer,
                                             p.fence)>>])
        /\ UNCHANGED <<surface, rp, contents_valid, vk, contents, held>>
        /\ UNCHANGED making

NextRenderPass == RpConfigure \/ RpPresent \/ GpuComplete

\* a render pass of one subpass, every native call of which may fail
SpecRenderPass == Init /\ [][NextRenderPass]_vars

\* render passes of any number of subpasses, in the runs where no native
\* call fails
InitRecording ==
    /\ InitSurface
    /\ \E subpasses \in 0..MaxSubpasses : rp = NewRenderPass(subpasses)
    /\ gpu = NoObjects
    /\ InitMade

NextRecording ==
    \/ RpConfigure /\ last'.result = Ok
    \/ RpPresent /\ last'.result = Ok
    \/ GpuComplete

SpecRecording == InitRecording /\ [][NextRecording]_vars

-----------------------------------------------------------------------------
(* RenderPass::new, one step of it at a time *)

\* the tuples of at most n elements of S
Tuples(S, n) == UNION {[1..k -> S] : k \in 0..n}

\* attachments.register: the next register_attachment
RegisterAttachment ==
    /\ builder.pc = "register"
    /\ Len(builder.attachment_ids) < Len(builder.attachments)
    /\ builder' = register_attachment(
                      builder,
                      builder.attachments[Len(builder.attachment_ids) + 1])
    /\ UNCHANGED <<surface, contents_valid, vk, contents, held, last, rp, gpu,
                   target, query>>

\* subpasses.register: the next register_subpass, whose error ends
\* RenderPass::new
RegisterSubpass ==
    /\ builder.pc = "register"
    /\ Len(builder.attachment_ids) = Len(builder.attachments)
    /\ Len(builder.subpass_descs) < Len(builder.subpasses)
    /\ \E r \in {register_subpass(
                     builder,
                     builder.subpasses[Len(builder.subpass_descs) + 1])} :
          builder' = IF r.result = Ok THEN r.builder
                     ELSE [r.builder EXCEPT !.pc = "done",
                                            !.result = r.result]
    /\ UNCHANGED <<surface, contents_valid, vk, contents, held, last, rp, gpu,
                   target, query>>

\* builder.build() and create_render_pass
CreateRenderPass ==
    /\ builder.pc = "register"
    /\ Len(builder.attachment_ids) = Len(builder.attachments)
    /\ Len(builder.subpass_descs)
          = Len(builder.subpasses) + Len(builder.requests)
    /\ \E code \in {Success, OutOfMemory} :
          builder' = [builder EXCEPT
                         !.info = build(builder),
                         !.render_pass = IF code = Success THEN "live"
                                         ELSE "none",
                         !.pc = IF code = Success THEN "command_pool"
                                ELSE "done",
                         !.result = IF code = Success THEN @
                                    ELSE vk_to_render_pass_err(code)]
    /\ UNCHANGED <<surface, contents_valid, vk, contents, held, last, rp, gpu,
                   target, query>>

\* create_command_pool and the return of RenderPass::new; the ScopeGuard
\* destroys the render pass when the pool cannot be created
CreateCommandPool ==
    /\ builder.pc = "command_pool"
    /\ \E code \in {Success, OutOfMemory} :
          /\ builder' = [builder EXCEPT
                            !.command_pool = IF code = Success THEN "live"
                                             ELSE "none",
                            !.render_pass = IF code = Success THEN "live"
                                            ELSE "destroyed",
                            !.pc = "done",
                            !.result = IF code = Success THEN Ok
                                       ELSE vk_to_render_pass_err(code)]
          /\ rp' = IF code = Success
                   THEN NewRenderPass(Len(builder.subpass_descs))
                   ELSE rp
    /\ UNCHANGED <<surface, contents_valid, vk, contents, held, last, gpu,
                   target, query>>

InitBuilder ==
    /\ InitSurface
    /\ rp = NewRenderPass(0)
    /\ gpu = NoObjects
    /\ target = [native_surface |-> "live", made |-> TRUE]
    /\ query = NoQuery
    /\ \E attachments \in Tuples(AttachmentTypes, MaxAttachments),
          subpasses \in Tuples(AttachmentTypes, MaxRequests) :
          builder = NewBuilder(attachments, subpasses, "register")

NextBuilder ==
    \/ RegisterAttachment
    \/ RegisterSubpass
    \/ CreateRenderPass
    \/ CreateCommandPool

\* RenderPass::new on every list of attachments and of subpasses
SpecBuilder == InitBuilder /\ [][NextBuilder]_vars

\* subpasses.register: the next register_subpass, of a subpass that is not
\* an EmptySubpass
RegisterGenericSubpass ==
    /\ builder.pc = "register"
    /\ Len(builder.attachment_ids) = Len(builder.attachments)
    /\ Len(builder.subpass_descs) >= Len(builder.subpasses)
    /\ Len(builder.subpass_descs)
          < Len(builder.subpasses) + Len(builder.requests)
    /\ \E r \in {register_generic_subpass(
                     builder,
                     builder.requests[Len(builder.subpass_descs)
                                      - Len(builder.subpasses) + 1])} :
          builder' = IF r.result = Ok THEN r.builder
                     ELSE [r.builder EXCEPT !.pc = "done",
                                            !.result = r.result]
    /\ UNCHANGED <<surface, contents_valid, vk, contents, held, last, rp, gpu,
                   target, query>>

\* what a subpass may request: references and indices of one attachment
\* type
Requests ==
    [of : {"A", "B"}, colors : 0..MaxRefs, inputs : 0..1, depth : BOOLEAN,
     preserves : 0..1]

InitBuild ==
    /\ InitSurface
    /\ rp = NewRenderPass(0)
    /\ gpu = NoObjects
    /\ target = [native_surface |-> "live", made |-> TRUE]
    /\ query = NoQuery
    /\ \E attachments \in Tuples({"A", "B"}, MaxAttachments),
          requests \in Tuples(Requests, MaxRequests) :
          builder = [NewBuilder(attachments, << >>, "register")
                        EXCEPT !.requests = requests]

NextBuild ==
    \/ RegisterAttachment
    \/ RegisterGenericSubpass
    \/ CreateRenderPass
    \/ CreateCommandPool

\* RenderPass::new on subpasses that request ranges of every kind
SpecBuild == InitBuild /\ [][NextBuild]_vars

-----------------------------------------------------------------------------
(* Surface::new, and the Surface it makes *)

\* what a surface answers to the native capability query
LiveCaps ==
    {[code |-> c.code, min |-> c.min, max |-> c.max,
      max_image_array_layers |-> layers,
      color_attachment |-> color,
      composite_alpha |-> TRUE] :
        c \in NativeCaps, layers \in 0..1, color \in BOOLEAN}
    \cup {[code |-> code, min |-> <<0, 0>>, max |-> <<0, 0>>,
           max_image_array_layers |-> 0, color_attachment |-> FALSE,
           composite_alpha |-> FALSE] :
             code \in {"ERROR_SURFACE_LOST_KHR", OutOfMemory}}

NoAnswer == [code |-> Success, count |-> 1, modes |-> 0]

\* the outcomes of the native calls of one Surface::new; a call that is
\* not reached is listed once
NewNatives ==
    {[create |-> create, caps |-> NoCaps, formats |-> NoAnswer,
      modes |-> NoAnswer] :
        create \in {Err("NotSupported"), UnexpectedError(OutOfMemory)}}
    \cup {[create |-> Ok, caps |-> caps, formats |-> NoAnswer,
           modes |-> NoAnswer] :
             caps \in {c \in LiveCaps :
                          \/ c.code # Success
                          \/ sanitize_assumed_capabilities(c) # Ok}}
    \cup {[create |-> Ok, caps |-> [caps EXCEPT !.composite_alpha = FALSE],
           formats |-> NoAnswer, modes |-> NoAnswer] :
             caps \in {c \in LiveCaps :
                          /\ c.code = Success
                          /\ sanitize_assumed_capabilities(c) = Ok}}
    \cup {[create |-> Ok, caps |-> caps, formats |-> formats,
           modes |-> modes] :
             caps \in {c \in LiveCaps :
                          /\ c.code = Success
                          /\ sanitize_assumed_capabilities(c) = Ok},
             formats \in {[code |-> OutOfMemory, count |-> 0, modes |-> 0],
                          [code |-> Success, count |-> 0, modes |-> 0],
                          [code |-> Success, count |-> 1, modes |-> 0]},
             modes \in {[code |-> OutOfMemory, count |-> 0, modes |-> 0]}
                       \cup {[code |-> Success, count |-> 1, modes |-> m] :
                                m \in SupportedModeSets \cup {ModeBit(Fifo)}}}

SurfaceNew ==
    /\ ~target.made
    /\ \E nat \in NewNatives :
        \E r \in {Surface_new(nat)} :
          /\ target' = [native_surface |-> r.native_surface,
                        made |-> r.result = Ok]
          /\ surface' = [surface EXCEPT
                             !.info_present_modes = r.present_modes]
          /\ last' = [last EXCEPT !.op = "new", !.caps = nat.caps,
                                  !.result = r.result, !.trace = r.trace]
    /\ UNCHANGED <<contents_valid, vk, contents, held, rp, gpu, builder, query>>

SurfaceCapabilities ==
    /\ target.made
    /\ \E native \in LiveCaps :
        \E r \in {Surface_capabilities(surface, native)} :
          last' = [last EXCEPT !.op = "capabilities", !.caps = native,
                               !.result = r.result,
                               !.trace = <<Event("get_capabilities",
                                                 B(native.code = Success),
                                                 0)>>]
    /\ UNCHANGED <<surface, contents_valid, vk, contents, held, rp, gpu,
                   builder, target, query>>

\* no Surface yet
InitNew ==
    /\ surface = [swapchain |-> Null,
                  images |-> << >>,
                  semaphore_pool |-> << >>,
                  info_present_modes |-> 0,
                  config |-> [width |-> 0, height |-> 0,
                              present_mode |-> Fifo],
                  present_wait_semaphores |-> << >>]
    /\ contents_valid = FALSE
    /\ vk = [swapchains |-> 0, live |-> {}, destroyed |-> {},
             double_destroy |-> FALSE, semaphores |-> 0]
    /\ contents = [state |-> "Invalid",
                   new_twice |-> FALSE, destroy_twice |-> FALSE]
    /\ held = {}
    /\ last = [op |-> "none",
               config |-> [width |-> 0, height |-> 0, present_mode |-> Fifo],
               caps |-> NoCaps, pool |-> << >>, result |-> Ok, trace |-> << >>]
    /\ rp = NewRenderPass(1)
    /\ gpu = NoObjects
    /\ builder = NewBuilder(<< >>, << >>, "done")
    /\ target = [native_surface |-> "none", made |-> FALSE]
    /\ query = NoQuery

NextNew ==
    \/ SurfaceNew
    \/ SurfaceCapabilities
    \/ target.made /\ SurfaceConfigure

\* Surface::new until it succeeds, then the Surface it returned
SpecNew == InitNew /\ [][NextNew]_vars

-----------------------------------------------------------------------------
(* From the constructors to the drops *)

\* RenderPass::new has returned a render pass that was not dropped since
Alive == builder.render_pass = "live" /\ builder.command_pool = "live"

\* the RenderPass is dropped
RenderPassDrop ==
    /\ Alive
    /\ \E r \in {RenderPass_drop(rp.per_frame, gpu)} :
          /\ rp' = [rp EXCEPT !.per_frame = r.per_frame]
          /\ gpu' = r.gpu
          /\ builder' = [builder EXCEPT !.render_pass = r.render_pass,
                                        !.command_pool = r.command_pool]
          /\ last' = Record("drop_render_pass", surface.config, NoCaps,
                            [result |-> Ok, trace |-> r.trace])
    /\ UNCHANGED <<surface, contents_valid, vk, contents, held, target, query>>

\* the Surface is dropped
SurfaceDrop ==
    /\ target.made
    /\ \E r \in {Surface_drop(surface, vk)} :
          /\ surface' = r.surface
          /\ vk' = r.vk
          /\ target' = [native_surface |-> r.native_surface, made |-> FALSE]
          /\ last' = Record("drop_surface", surface.config, NoCaps,
                            [result |-> Ok, trace |-> r.trace])
    /\ UNCHANGED <<contents_valid, contents, held, rp, gpu, builder, query>>

\* no Surface and no RenderPass yet; RenderPass::new will be given one
\* output attachment and one subpass drawing to it
InitLife ==
    /\ surface = [swapchain |-> Null,
                  images |-> << >>,
                  semaphore_pool |-> << >>,
                  info_present_modes |-> 0,
                  config |-> [width |-> 0, height |-> 0,
                              present_mode |-> Fifo],
                  present_wait_semaphores |-> << >>]
    /\ contents_valid = FALSE
    /\ vk = [swapchains |-> 0, live |-> {}, destroyed |-> {},
             double_destroy |-> FALSE, semaphores |-> 0]
    /\ contents = [state |-> "Invalid",
                   new_twice |-> FALSE, destroy_twice |-> FALSE]
    /\ held = {}
    /\ last = [op |-> "none",
               config |-> [width |-> 0, height |-> 0, present_mode |-> Fifo],
               caps |-> NoCaps, pool |-> << >>, result |-> Ok, trace |-> << >>]
    /\ rp = NewRenderPass(0)
    /\ gpu = NoObjects
    /\ builder = NewBuilder(<<"OutputAttachment">>, <<"OutputAttachment">>,
                            "register")
    /\ target = [native_surface |-> "none", made |-> FALSE]
    /\ query = NoQuery

NextLife ==
    \/ SurfaceNew
    \/ target.made /\ RegisterAttachment
    \/ target.made /\ RegisterSubpass
    \/ target.made /\ CreateRenderPass
    \/ target.made /\ CreateCommandPool
    \/ Alive /\ RpConfigure
    \/ Alive /\ RpPresent
    \/ GpuComplete
    \/ RenderPassDrop

\* Surface::new until it succeeds, RenderPass::new, the render pass used as
\* the contents of the surface, the render pass dropped
SpecLife == InitLife /\ [][NextLife]_vars

NextSurfaceLife ==
    \/ last.op # "drop_surface" /\ SurfaceNew
    \/ target.made /\ SurfaceConfigure
    \/ target.made /\ SurfaceConfigureUnchecked
    \/ target.made /\ SurfacePresent
    \/ SurfaceDrop

\* Surface::new until it succeeds, the Surface used directly, then dropped
SpecSurfaceLife == InitNew /\ [][NextSurfaceLife]_vars

-----------------------------------------------------------------------------
(* A SurfaceWithContents of a Surface and a RenderPass, and the GPU *)

\* the configurations asked for: one no surface accepts, one every surface
\* accepts
WholeConfigs == {Config(0, 1, Fifo), Config(1, 1, Fifo)}

\* the results of the native calls of one configure_unchecked: the swapchain
\* is not created, its images are not read, or `count` images are read and
\* then all calls succeed, a PerFrame::new fails, an image view is not
\* created, or a framebuffer is not created (a call that is not reached is
\* listed once)
WholeConfigureNatives ==
    LET outcome(create, images, count, grow, grow_at, view_at, fb_at) ==
            [create |-> create, images |-> images, count |-> count,
             grow |-> grow, grow_at |-> grow_at, view_at |-> view_at,
             fb_at |-> fb_at]
        outcomes ==
            {outcome(e, Success, 1, "none", 1, 0, 0) : e \in ConfigureErrors}
            \cup {outcome(Success, "ERROR_DEVICE_LOST", 1, "none", 1, 0, 0)}
            \cup {outcome(Success, Success, count, "none", 1, 0, 0) :
                     count \in 1..MaxImages}
            \cup {outcome(Success, Success, count, stage, at, 0, 0) :
                     count \in 1..MaxImages,
                     stage \in {"fence", "semaphore", "command_buffer"},
                     at \in 1..MaxImages}
            \cup {outcome(Success, Success, count, "none", 1, at, 0) :
                     count \in 1..MaxImages, at \in 1..MaxImages}
            \cup {outcome(Success, Success, count, "none", 1, 0, at) :
                     count \in 1..MaxImages, at \in 1..MaxImages}
    IN  {[create |-> o.create, images |-> o.images, count |-> o.count,
          grow |-> o.grow, grow_at |-> o.grow_at, view_at |-> o.view_at,
          fb_at |-> o.fb_at, waits |-> w] :
            o \in {o \in outcomes :
                      /\ o.grow # "none"
                            => o.grow_at <= o.count - Len(rp.per_frame)
                      /\ o.view_at <= o.count
                      /\ o.fb_at <= o.count},
            w \in WaitResults}

\* the natives that matter to a configure with this config and this answer
WholeNativesFor(config, caps) ==
    IF caps.code = Success
       /\ IsConfigValid(Capabilities(surface, caps), config)
    THEN WholeConfigureNatives
    ELSE {n \in WholeConfigureNatives :
             /\ n.create = Success /\ n.images = Success /\ n.count = 1
             /\ n.grow = "none" /\ n.view_at = 0 /\ n.fb_at = 0
             /\ \A i \in DOMAIN n.waits : n.waits[i] = Success}

\* the call returns: every successful wait of notify_destroy_images is on a
\* fence that is signaled
WaitsReturn(nat) ==
    contents_valid
       => \A i \in DOMAIN rp.per_frame :
              WaitReturns(gpu, rp.per_frame[i].fence, nat.waits[i])

WholeConfigure ==
    \E config \in WholeConfigs, caps \in CapsResults :
      \E nat \in WholeNativesFor(config, caps) :
        /\ MayCreate(nat)
        /\ (caps.code = Success
            /\ IsConfigValid(Capabilities(surface, caps), config))
              => WaitsReturn(nat)
        /\ \E r \in {Whole_configure(surface, vk, rp, gpu, contents_valid,
                                     config, caps, nat)} :
              /\ Cardinality(r.gpu.live_framebuffers) <= MaxFramebuffers
              /\ surface' = r.surface
              /\ vk' = r.vk
              /\ rp' = r.rp
              /\ gpu' = r.gpu
              /\ contents_valid' = r.contents_valid
              /\ last' = Record("configure", config, caps, r)
        /\ UNCHANGED <<contents, held>>
        /\ UNCHANGED making

\* the results of the native calls of one present
WholePresentNatives ==
    {n \in [semaphore : {Success, "ERROR_DEVICE_LOST"},
            acquire : {Success, "SUBOPTIMAL_KHR", "ERROR_OUT_OF_DATE_KHR"},
            index : IF surface.images = << >> THEN {0}
                    ELSE 0..(Len(surface.images) - 1),
            fail : {"none"} \cup {RenderCalls[k] : k \in DOMAIN RenderCalls},
            present : {Success, "SUBOPTIMAL_KHR", "ERROR_OUT_OF_DATE_KHR"}] :
        /\ n.semaphore # Success
              => n.acquire = Success /\ n.index = 0 /\ n.fail = "none"
        /\ n.acquire \notin {Success, "SUBOPTIMAL_KHR"}
              => n.index = 0 /\ n.fail = "none"
        /\ (n.semaphore # Success \/ n.acquire # Success \/ n.fail # "none")
              => n.present = Success}

WholePresent ==
    \E nat \in WholePresentNatives :
        /\ \E r \in {Whole_present(surface, vk, rp, gpu, contents_valid,
                                   nat)} :
              /\ r.returns
              /\ Cardinality(r.gpu.pending) <= MaxPending
              /\ surface' = r.surface
              /\ vk' = r.vk
              /\ gpu' = r.gpu
              /\ last' = [Record("present", surface.config, NoCaps, r)
                            EXCEPT !.op = IF r.undefined THEN "undefined"
                                          ELSE @]
        /\ UNCHANGED <<rp, contents_valid, contents, held>>
        /\ UNCHANGED making

NextWhole == WholeConfigure \/ WholePresent \/ GpuComplete

\* a Surface and the RenderPass that is its contents, every native call of
\* which may fail, and the GPU that completes the submissions
SpecWhole == Init /\ [][NextWhole]_vars

-----------------------------------------------------------------------------
(* The helper functions, called on every input *)

\* what the other variables are while a helper function is called
InitHelper ==
    /\ InitSurface
    /\ rp = NewRenderPass(1)
    /\ gpu = NoObjects
    /\ builder = NewBuilder(<< >>, << >>, "done")
    /\ target = [native_surface |-> "live", made |-> TRUE]

ReadErrors == {"ERROR_OUT_OF_HOST_MEMORY", "ERROR_SURFACE_LOST_KHR"}

\* the answers of one round: the count query fails (the read is not made),
\* or it reports `count` items and the read writes at most that many
Rounds ==
    {[count_result |-> e, count |-> 0, read_result |-> Success,
      written |-> 0] : e \in ReadErrors \cup {Incomplete}}
    \cup {r \in [count_result : {Success}, count : 0..MaxCount,
                 read_result : {Success, Incomplete} \cup ReadErrors,
                 written : 0..MaxCount] : r.written <= r.count}

\* the rounds after which the loop goes on
Repeating == {r \in Rounds : /\ r.count_result = Success
                             /\ r.read_result = Incomplete}

\* the scripts of a call: rounds that repeat, then any round
Scripts ==
    UNION {{repeats \o <<final>> :
               repeats \in Tuples(Repeating, n), final \in Rounds} :
           n \in 0..(MaxReads - 1)}

InitRead ==
    /\ InitHelper
    /\ \E len \in 0..1, script \in Scripts :
          query = [of |-> "read_into_vector", len |-> len, script |-> script,
                   out |-> [returned |-> FALSE, result |-> "", len |-> len,
                            rounds |-> 0]]

\* read_into_vector runs and returns
ReadIntoVector ==
    /\ query.of = "read_into_vector"
    /\ ~query.out.returned
    /\ \E r \in {read_into_vector(query.len, query.script, 1)} :
          /\ r.returned
          /\ query' = [query EXCEPT !.out = r]
    /\ UNCHANGED <<surface, contents_valid, vk, contents, held, last, rp,
                   gpu, builder, target>>

\* read_into_vector on every container length and native behaviour
SpecRead == InitRead /\ [][ReadIntoVector]_vars

InitImageCount ==
    /\ InitHelper
    /\ \E min \in 0..MaxImageCount, max \in 0..MaxImageCount :
          query = [of |-> "get_min_image_count",
                   caps |-> [min_image_count |-> min,
                             max_image_count |-> max],
                   out |-> [returned |-> FALSE, value |-> 0]]

\* get_min_image_count runs and returns
GetMinImageCount ==
    /\ query.of = "get_min_image_count"
    /\ ~query.out.returned
    /\ query' = [query EXCEPT
                    !.out = [returned |-> TRUE,
                             value |-> get_min_image_count(query.caps)]]
    /\ UNCHANGED <<surface, contents_valid, vk, contents, held, last, rp,
                   gpu, builder, target>>

\* get_min_image_count on every pair of image count bounds
SpecImageCount == InitImageCount /\ [][GetMinImageCount]_vars

-----------------------------------------------------------------------------
(* Vocabulary of the properties, stated on the inputs and the native calls *)

ConfigureOps == {"configure", "configure_unchecked"}

Calls(trace, name) == Positions(trace, name) # {}

SwapchainCalls == {"create_swapchain", "get_swapchain_images", "destroy_swapchain"}

NoSwapchainCall(trace) == \A i \in DOMAIN trace : trace[i][1] \notin SwapchainCalls

\* the capability query answered, and the config is within its answer
Acceptable(config, caps, modes) ==
    /\ caps.code = Success
    /\ config.width > 0 /\ config.height > 0
    /\ config.width >= caps.min[1] /\ config.height >= caps.min[2]
    /\ \/ caps.max[1] = 0
       \/ caps.max[2] = 0
       \/ config.width <= caps.max[1] /\ config.height <= caps.max[2]
    /\ (modes \div (2 ^ config.present_mode)) % 2 = 1

\* a config of no width or height, or one outside the answer of the query
Rejectable(config, caps, modes) ==
    \/ config.width = 0
    \/ config.height = 0
    \/ caps.code = Success /\ ~Acceptable(config, caps, modes)

\* the native creation succeeded / failed in this operation
Created(trace) ==
    \E i \in Positions(trace, "create_swapchain") : trace[i][3] # Null

CreationFailed(trace) ==
    \E i \in Positions(trace, "create_swapchain") : trace[i][3] = Null

Listed(trace) ==
    \E i \in Positions(trace, "get_swapchain_images") : trace[i][3] >= 1

-----------------------------------------------------------------------------
(* Surface: retirement *)

\* C1: when the native swapchain creation of a configure fails the surface has
\* no live swapchain afterwards; a present on a surface without a live
\* swapchain returns SwapchainRetired; and the surface gets a live swapchain
\* again only by a configure that returns Ok.
C1_RetiredUntilConfigured ==
    [][/\ CreationFailed(last'.trace) => surface'.swapchain = Null
       /\ (surface.swapchain = Null /\ last'.op = "present")
             => last'.result = Err("SwapchainRetired")
       /\ (surface.swapchain = Null /\ surface'.swapchain # Null)
             => (last'.op \in ConfigureOps /\ last'.result = Ok)]_vars

\* a present refused on a surface that had a swapchain and lost it
C1_Witness ==
    /\ last.op = "present"
    /\ last.result = Err("SwapchainRetired")
    /\ vk.swapchains > 0
    /\ surface.swapchain = Null

\* C2: a present on a surface without a live swapchain returns
\* SwapchainRetired and makes no native call: no semaphore leaves the pool or
\* is created, no image is acquired, render is not called, nothing is queued.
C2_RetiredPresentTouchesNothing ==
    [][(surface.swapchain = Null /\ last'.op = "present")
          => /\ last'.result = Err("SwapchainRetired")
             /\ last'.trace = << >>
             /\ surface' = surface
             /\ vk' = vk]_vars

\* a refused present that left a pooled semaphore where it was
C2_Witness ==
    /\ last.op = "present"
    /\ last.result = Err("SwapchainRetired")
    /\ last.trace = << >>
    /\ surface.semaphore_pool # << >>
    /\ last.pool = surface.semaphore_pool

-----------------------------------------------------------------------------
(* Surface: configure *)

\* C3 as stated: a configure with a config that is valid for the current
\* capabilities succeeds and leaves a live swapchain.
C3_ValidConfigSucceeds ==
    (last.op = "configure"
       /\ Acceptable(last.config, last.caps, surface.info_present_modes))
    => (last.result = Ok /\ surface.swapchain # Null)

\* C3 amended: a configure with a valid config reaches the native creation;
\* it returns Ok exactly when the creation and the image query succeed, with a
\* live swapchain afterwards, and otherwise returns an error and leaves the
\* surface retired.
C3_ValidConfigSucceedsIfNativeDoes ==
    (last.op = "configure"
       /\ Acceptable(last.config, last.caps, surface.info_present_modes))
    => /\ Calls(last.trace, "create_swapchain")
       /\ last.result = Ok <=> (Created(last.trace) /\ Listed(last.trace))
       /\ last.result = Ok => (surface.swapchain # Null
                                /\ surface.config = last.config)
       /\ last.result # Ok => surface.swapchain = Null

\* a successful configure of a surface that had a live swapchain
C3_Witness ==
    /\ last.op = "configure"
    /\ Acceptable(last.config, last.caps, surface.info_present_modes)
    /\ last.result = Ok
    /\ surface.swapchain # Null
    /\ \E i \in Positions(last.trace, "create_swapchain") :
           last.trace[i][2] # Null

\* C4 as stated: a configure with a config of no width or height (or outside
\* the capabilities) fails with InvalidConfig before any swapchain call and
\* changes nothing.
C4_InvalidConfigRejected ==
    [][(last'.op = "configure"
          /\ Rejectable(last'.config, last'.caps, surface.info_present_modes))
       => /\ last'.result = Err("InvalidConfig")
          /\ NoSwapchainCall(last'.trace)
          /\ surface' = surface]_vars

\* C4 amended: such a configure fails before any swapchain call and changes
\* nothing; the error is InvalidConfig when the capability query answers, and
\* the error of the query when it fails.
C4_InvalidConfigRejectedAfterQuery ==
    [][(last'.op = "configure"
          /\ Rejectable(last'.config, last'.caps, surface.info_present_modes))
       => /\ last'.caps.code = Success => last'.result = Err("InvalidConfig")
          /\ last'.caps.code # Success
                => last'.result[1] \in {"Lost", "UnexpectedError"}
          /\ NoSwapchainCall(last'.trace)
          /\ surface' = surface
          /\ vk' = vk]_vars

\* a config of no width rejected on a configured surface
C4_Witness ==
    /\ last.op = "configure"
    /\ last.config.width = 0
    /\ last.caps.code = Success
    /\ last.result = Err("InvalidConfig")
    /\ surface.swapchain # Null
    /\ surface.config.width > 0

\* C5: after a successful configure that replaced a live swapchain the old
\* handle, given to the creation as the hint, has been destroyed after the
\* creation, and only the current swapchain is left undestroyed.
C5_OldSwapchainDestroyed ==
    (last.op \in ConfigureOps /\ last.result = Ok)
    => \A i \in Positions(last.trace, "create_swapchain") :
          last.trace[i][2] # Null
          => /\ \E j \in Positions(last.trace, "destroy_swapchain") :
                    j > i /\ last.trace[j][2] = last.trace[i][2]
             /\ last.trace[i][2] \notin vk.live
             /\ ~vk.double_destroy

\* C9: whatever the way present returns, the semaphore it took is back in the
\* free list: between operations every semaphore the pool created is in the
\* free list, once.
C9_SemaphoreAlwaysReturned ==
    /\ Len(surface.semaphore_pool) = vk.semaphores
    /\ {surface.semaphore_pool[i] : i \in DOMAIN surface.semaphore_pool}
           = 1..vk.semaphores
    /\ (last.op = "present" /\ Calls(last.trace, "acquire_next_image"))
          => \E i \in Positions(last.trace, "acquire_next_image") :
                 \E j \in DOMAIN surface.semaphore_pool :
                     surface.semaphore_pool[j] = last.trace[i][2]

\* a present whose render failed, with its semaphore back in the pool
C9_Witness ==
    /\ last.op = "present"
    /\ last.result = UnexpectedError("ERROR_DEVICE_LOST")
    /\ \E i \in Positions(last.trace, "render") : last.trace[i][3] = 0
    /\ surface.semaphore_pool # << >>

-----------------------------------------------------------------------------
(* SurfaceWithContents: the notification protocol *)

\* C6: present calls the contents' render only when the last notification
\* the contents got is a notify_new_images that returned Ok; otherwise it
\* returns an error and does not call render.
C6_RenderOnlyWhenValid ==
    [][last'.op = "present"
          => /\ Calls(last'.trace, "render") => contents.state = "Valid"
             /\ contents.state # "Valid"
                   => (last'.result # Ok /\ ~Calls(last'.trace, "render"))]_vars

\* a present that rendered, on valid contents
C6_Witness ==
    /\ last.op = "present"
    /\ Calls(last.trace, "render")
    /\ contents.state = "Valid"
    /\ contents_valid

\* C7: notify_new_images is never delivered twice without a
\* notify_destroy_images in between.
C7_NoNewImagesTwice == ~contents.new_twice

-----------------------------------------------------------------------------
(* SemaphorePool *)

\* C10: a get that directly follows a release returns the released semaphore,
\* creates none and leaves the pool as it was before the release; a get
\* creates a semaphore exactly when the free list is empty.
C10_ReleaseThenGet ==
    [][/\ (last.op = "give_back" /\ last'.op = "get")
             => /\ last'.result = Ok
                /\ held' = held \cup {last.trace[1][2]}
                /\ surface'.semaphore_pool = last.pool
                /\ vk'.semaphores = vk.semaphores
       /\ (last'.op = "get" /\ surface.semaphore_pool # << >>)
             => vk'.semaphores = vk.semaphores
       /\ (last'.op = "get" /\ surface.semaphore_pool = << >>
             /\ last'.result = Ok)
             => vk'.semaphores = vk.semaphores + 1]_vars

\* a get that reused the semaphore on top of a pool of several
C10_Witness ==
    /\ last.op = "get"
    /\ last.result = Ok
    /\ Len(last.pool) >= 2
    /\ ~Calls(last.trace, "create_semaphore")
    /\ \E i \in Positions(last.trace, "get") :
           last.trace[i][2] = last.pool[Len(last.pool)]

-----------------------------------------------------------------------------
(* Surface: the errors of present *)

Acquired(code) == code \in {Success, "SUBOPTIMAL_KHR"}

\* the error a caller is to see for a code reported by the native layer
TypedPresentError(code) ==
    IF code = "ERROR_SURFACE_LOST_KHR" THEN <<"Lost", "">>
    ELSE IF code = "ERROR_OUT_OF_DATE_KHR" THEN <<"OutOfDate", "">>
    ELSE IF code = "TIMEOUT" THEN <<"Timeout", "">>
    ELSE <<"UnexpectedError", code>>

\* the step is a present of a live surface with these native results
PresentStep(nat) ==
    /\ surface.swapchain # Null
    /\ nat.semaphore = Success
    /\ surface' = present(surface, vk, nat).surface
    /\ vk' = present(surface, vk, nat).vk
    /\ last' = Record("present", surface.config, NoCaps,
                      present(surface, vk, nat))

\* C11: when the image acquisition or the queue-present of a present reports
\* surface-lost, out-of-date or timeout, present returns Lost, OutOfDate or
\* Timeout; every other code they report as a failure comes back unchanged
\* in UnexpectedError; a failed acquisition ends the present before render.
C11_PresentErrorsTyped ==
    [][\A nat \in PresentNatives(surface) :
          PresentStep(nat)
          => /\ ~Acquired(nat.acquire)
                   => /\ last'.result = TypedPresentError(nat.acquire)
                      /\ ~Calls(last'.trace, "render")
                      /\ ~Calls(last'.trace, "queue_present")
             /\ (Acquired(nat.acquire) /\ nat.render = Success
                   /\ nat.present # Success)
                   => last'.result = TypedPresentError(nat.present)]_vars

\* a present whose queue-present was refused as out of date
C11_Witness ==
    /\ last.op = "present"
    /\ last.result = Err("OutOfDate")
    /\ \E i \in Positions(last.trace, "queue_present") : last.trace[i][3] = 0

-----------------------------------------------------------------------------
(* RenderPass: the per-frame data across reconfigurations *)

\* the framebuffers the per-frame records hold
HeldFramebuffers(r) ==
    {r.per_frame[i].framebuffer : i \in DOMAIN r.per_frame} \ {Null}

\* the operation told the contents of the destruction / of `n` new images
\* (which the contents accepted)
Destroyed(trace) == Calls(trace, "notify_destroy_images")

Renewed(trace, n) ==
    \E i \in Positions(trace, "notify_new_images") :
        trace[i][2] = n /\ trace[i][3] = 1

\* C12: after notify_new_images then notify_destroy_images no per-frame
\* record holds a framebuffer; after a following notify_new_images that
\* succeeds for n images there are n per-frame records and n framebuffers,
\* one in each record, and the round trip leaves no framebuffer behind.
C12_FramebufferRoundTrip ==
    [][(last'.op = "configure_unchecked" /\ Destroyed(last'.trace))
       => /\ contents_valid
          /\ ~Calls(last'.trace, "notify_new_images")
                => HeldFramebuffers(rp') = {}
          /\ \A i \in DOMAIN rp.per_frame :
                \E j \in Positions(last'.trace, "destroy_framebuffer") :
                    /\ last'.trace[j][2] = rp.per_frame[i].framebuffer
                    /\ \A k \in Positions(last'.trace, "create_framebuffer") :
                           j < k
          /\ \A n \in 1..MaxFrames :
                Renewed(last'.trace, n)
                => /\ Len(rp'.per_frame) = n
                   /\ Cardinality(HeldFramebuffers(rp')) = n
                   /\ HeldFramebuffers(rp') \subseteq gpu'.live_framebuffers
                   /\ gpu'.live_framebuffers \ HeldFramebuffers(rp')
                         = gpu.live_framebuffers \ HeldFramebuffers(rp)]_vars

\* a round trip that changed the number of images
C12_Witness ==
    /\ last.op = "configure_unchecked"
    /\ last.result = Ok
    /\ \E i \in Positions(last.trace, "notify_destroy_images") :
           /\ last.trace[i][2] >= 1
           /\ last.trace[i][2] # Len(rp.per_frame)
    /\ Cardinality(HeldFramebuffers(rp)) = Len(rp.per_frame)

\* notify_new_images was called for n images (whatever it returned)
NewImages(trace, n) ==
    \E i \in Positions(trace, "notify_new_images") : trace[i][2] = n

\* the call `name` was made on the handle `h`
CalledOn(trace, name, h) ==
    \E i \in Positions(trace, name) : trace[i][2] = h

\* C13: when notify_new_images is called with fewer images than there are
\* per-frame records, the records are cut to the new image count; the fence,
\* semaphore and command buffer (and the framebuffer, if any) of every
\* removed record are released within the call; the records that are kept
\* keep their fence, semaphore and command buffer.
C13_ShrinkReleasesRemoved ==
    [][\A n \in 1..MaxFrames :
          (last'.op = "configure_unchecked" /\ NewImages(last'.trace, n)
             /\ n < Len(rp.per_frame))
          => /\ Len(rp'.per_frame) = n
             /\ \A i \in (n + 1)..Len(rp.per_frame) :
                   LET pf == rp.per_frame[i]
                   IN  /\ CalledOn(last'.trace, "destroy_fence", pf.fence)
                       /\ CalledOn(last'.trace, "destroy_semaphore",
                                   pf.semaphore)
                       /\ CalledOn(last'.trace, "free_command_buffers",
                                   pf.command_buffer)
                       /\ pf.fence \notin gpu'.fences
                       /\ pf.semaphore \notin gpu'.semaphores
                       /\ pf.command_buffer \notin gpu'.command_buffers
                       /\ pf.framebuffer # Null
                             => CalledOn(last'.trace, "destroy_framebuffer",
                                         pf.framebuffer)
             /\ \A i \in 1..n :
                   /\ rp'.per_frame[i].fence = rp.per_frame[i].fence
                   /\ rp'.per_frame[i].semaphore = rp.per_frame[i].semaphore
                   /\ rp'.per_frame[i].command_buffer
                         = rp.per_frame[i].command_buffer
                   /\ rp'.per_frame[i].fence \in gpu'.fences
                   /\ rp'.per_frame[i].semaphore \in gpu'.semaphores
                   /\ rp'.per_frame[i].command_buffer
                         \in gpu'.command_buffers]_vars

\* a reconfiguration that removed the last per-frame record and kept another
C13_Witness ==
    /\ last.op = "configure_unchecked"
    /\ Calls(last.trace, "free_command_buffers")
    /\ Len(rp.per_frame) >= 1
    /\ \E i \in Positions(last.trace, "free_command_buffers") :
           /\ last.trace[i][2] \notin gpu.command_buffers
           /\ last.trace[i][2] # rp.per_frame[1].command_buffer

WaitsSucceeded(trace) ==
    \A i \in Positions(trace, "wait_for_fences") : trace[i][3] = 1

-----------------------------------------------------------------------------
(* RenderPass: render and the GPU *)

\* the image index of the render of a present
Rendered(trace, index) ==
    \E i \in Positions(trace, "render") : trace[i][2] = index

\* every call `first` of the trace comes before every call `second`
Before(trace, first, second) ==
    \A i \in Positions(trace, first) :
        \A j \in Positions(trace, second) : i < j

\* C19: render never resets or begins the command buffer of a frame while
\* the GPU still executes a submission of it: it waits on the frame's fence
\* first, and a fence that was reset becomes signaled only by the completion
\* of the submission it was given to; a render waits on no fence but the one
\* of its frame, so it goes on while other frames are in flight.
C19_NoReuseWhilePending ==
    [][/\ \A index \in 0..(MaxFrames - 1) :
             (last'.op = "present" /\ Rendered(last'.trace, index))
             => LET pf == rp.per_frame[index + 1]
                IN  /\ \A i \in Positions(last'.trace, "wait_for_fences") :
                           last'.trace[i][2] = pf.fence
                    /\ Calls(last'.trace, "wait_for_fences")
                    /\ Before(last'.trace, "wait_for_fences",
                              "reset_command_buffer")
                    /\ Calls(last'.trace, "reset_command_buffer")
                          => /\ CalledOn(last'.trace, "reset_command_buffer",
                                         pf.command_buffer)
                             /\ pf.fence \in gpu.signaled
                             /\ \A p \in gpu.pending :
                                    p.command_buffer # pf.command_buffer
       /\ \A f \in gpu.fences :
             (f \notin gpu.signaled /\ f \in gpu'.signaled)
             => /\ last'.op = "gpu_complete"
                /\ \E p \in gpu.pending \ gpu'.pending : p.fence = f]_vars

\* a render that went through while another frame was still in flight
C19_Witness ==
    /\ last.op = "present"
    /\ last.result = Ok
    /\ Cardinality(gpu.pending) >= 2
    /\ \A p \in gpu.pending : p.fence \in gpu.fences \ gpu.signaled

\* C20: a successful render of the acquired image i waits on the fence of
\* frame i, resets its command buffer, begins, records and ends it, resets
\* the fence, and then submits once, waiting on the acquire semaphore of the
\* frame context and signaling the semaphore and the fence of frame i; it
\* leaves that semaphore, once, in the present-wait list of the context.
C20_RenderOrder ==
    [][\A index \in 0..(MaxFrames - 1) :
          (last'.op = "present" /\ Rendered(last'.trace, index)
             /\ last'.result = Ok)
          => LET pf == rp.per_frame[index + 1]
                 calls == [i \in DOMAIN last'.trace |->
                              <<last'.trace[i][1], last'.trace[i][2]>>]
             IN  /\ calls
                       = <<<<"render", index>>,
                           <<"wait_for_fences", pf.fence>>,
                           <<"reset_command_buffer", pf.command_buffer>>,
                           <<"begin_command_buffer", pf.command_buffer>>,
                           <<"cmd_begin_render_pass", pf.command_buffer>>,
                           <<"record", 1>>,
                           <<"cmd_end_render_pass", pf.command_buffer>>,
                           <<"end_command_buffer", pf.command_buffer>>,
                           <<"reset_fences", pf.fence>>,
                           <<"queue_submit", pf.command_buffer>>,
                           <<"push_wait_semaphore", pf.semaphore>>>>
                 /\ gpu'.pending
                       = gpu.pending
                         \cup {[command_buffer |-> pf.command_buffer,
                                 fence |-> pf.fence,
                                 wait |-> AcquireSemaphore,
                                 signal |-> pf.semaphore]}
                 /\ Cardinality(gpu'.pending) = Cardinality(gpu.pending) + 1
                 /\ pf.fence \notin gpu'.signaled
                 /\ surface'.present_wait_semaphores = <<pf.semaphore>>]_vars

\* a successful render of the second image
C20_Witness ==
    /\ last.op = "present"
    /\ last.result = Ok
    /\ Rendered(last.trace, 1)
    /\ surface.present_wait_semaphores = <<rp.per_frame[2].semaphore>>

-----------------------------------------------------------------------------
(* RenderPass: the subpasses of a render *)

RecordingCall(e) == e[1] \in {"record", "cmd_next_subpass"}

\* C17: a render of n subpasses records them in registration order, with
\* one next-subpass transition between each two consecutive subpasses and
\* nowhere else: n - 1 transitions for n >= 1, none for n <= 1, all of it
\* between the beginning and the end of the render pass.
C17_NextSubpassBetween ==
    [][(last'.op = "present" /\ Calls(last'.trace, "render"))
       => LET n == rp.subpasses
              recording == SelectSeq(last'.trace, RecordingCall)
              names == [j \in DOMAIN recording |-> recording[j][1]]
              records == SelectSeq(last'.trace,
                                   LAMBDA e : e[1] = "record")
          IN  /\ Len(records) = n
              /\ \A k \in 1..n : records[k][2] = k
              /\ Cardinality(Positions(last'.trace, "cmd_next_subpass"))
                    = IF n >= 1 THEN n - 1 ELSE 0
              /\ names = [j \in 1..(IF n >= 1 THEN 2 * n - 1 ELSE 0) |->
                             IF j % 2 = 1 THEN "record"
                             ELSE "cmd_next_subpass"]
              /\ Before(last'.trace, "cmd_begin_render_pass", "record")
              /\ Before(last'.trace, "cmd_begin_render_pass",
                        "cmd_next_subpass")
              /\ Before(last'.trace, "record", "cmd_end_render_pass")
              /\ Before(last'.trace, "cmd_next_subpass",
                        "cmd_end_render_pass")]_vars

\* a render of three subpasses, with its two transitions
C17_Witness ==
    /\ last.op = "present"
    /\ rp.subpasses = 3
    /\ Cardinality(Positions(last.trace, "record")) = 3
    /\ Cardinality(Positions(last.trace, "cmd_next_subpass")) = 2

-----------------------------------------------------------------------------
(* RenderPass::new: attachment references *)

\* the index at which the type id was registered: the number of
\* attachments given before the first one of that type
RegistrationIndex(attachments, id) ==
    Cardinality({j \in DOMAIN attachments :
                    \A i \in 1..j : attachments[i] # id})

Registered(attachments, id) == \E i \in DOMAIN attachments : attachments[i] = id

\* the subpass that register_subpass is about to register
NextSubpass(b) == b.subpasses[Len(b.subpass_descs) + 1]

\* the builder is about to register a subpass
RegistersSubpass(b) ==
    /\ b.pc = "register"
    /\ Len(b.attachment_ids) = Len(b.attachments)
    /\ Len(b.subpass_descs) < Len(b.subpasses)

\* C15: the request of a subpass for the attachment type A appends one
\* reference, whose attachment index is the registration index of A
\* whatever else is registered, and returns its position; in the built
\* descriptor, the color-attachment pointer of each subpass points to the
\* reference of the type it requested.
C15_ReferenceIsRegistrationIndex ==
    [][/\ (RegistersSubpass(builder)
             /\ Registered(builder.attachments, NextSubpass(builder)))
          => LET n == Len(builder.attachment_refs)
             IN  /\ builder'.ret = Some(n)
                 /\ Len(builder'.attachment_refs) = n + 1
                 /\ SubSeq(builder'.attachment_refs, 1, n)
                       = builder.attachment_refs
                 /\ builder'.attachment_refs[n + 1].attachment
                       = RegistrationIndex(builder.attachments,
                                           NextSubpass(builder))
                 /\ builder'.attachment_refs[n + 1].layout
                       = ColorAttachmentOptimal
                 /\ Len(builder'.subpass_descs)
                       = Len(builder.subpass_descs) + 1
       /\ builder'.info.built
          => /\ Len(builder'.info.subpasses) = Len(builder'.subpasses)
             /\ builder'.info.attachment_count = Len(builder'.attachments)
             /\ \A k \in DOMAIN builder'.info.subpasses :
                   LET d == builder'.info.subpasses[k]
                   IN  /\ d.color_attachment_count = 1
                       /\ d.p_color_attachments.base = "attachment_refs"
                       /\ d.p_color_attachments.offset
                             < Len(builder'.attachment_refs)
                       /\ Deref(builder', d.p_color_attachments).attachment
                             = RegistrationIndex(builder'.attachments,
                                                 builder'.subpasses[k])]_vars

\* attachments [A, B] and one subpass that requests A: the built
\* descriptor refers to attachment 0
C15_Witness ==
    /\ builder.attachments = <<"A", "B">>
    /\ builder.subpasses = <<"A">>
    /\ builder.info.built
    /\ Deref(builder, builder.info.subpasses[1].p_color_attachments).attachment
          = 0

\* C16: when a subpass requests an attachment type that was never
\* registered, the request returns None and appends no reference, the
\* registration fails with MissingAttachment, and RenderPass::new ends with
\* that error: nothing is built and no native render pass or command pool
\* is ever created.
C16_MissingAttachment ==
    [][/\ (RegistersSubpass(builder)
             /\ ~Registered(builder.attachments, NextSubpass(builder)))
          => /\ builder'.ret = None
             /\ builder'.attachment_refs = builder.attachment_refs
             /\ builder'.subpass_descs = builder.subpass_descs
             /\ builder'.result = Err("MissingAttachment")
             /\ builder'.pc = "done"
       /\ builder'.result = Err("MissingAttachment")
          => /\ ~builder'.info.built
             /\ builder'.render_pass = "none"
             /\ builder'.command_pool = "none"
             /\ rp' = rp
       /\ builder.result = Err("MissingAttachment")
          => builder' = builder]_vars

\* RenderPass::new returned MissingAttachment for a second subpass, after a
\* first one had its reference
C16_Witness ==
    /\ builder.result = Err("MissingAttachment")
    /\ builder.pc = "done"
    /\ Len(builder.attachment_refs) = 1
    /\ builder.render_pass = "none"

-----------------------------------------------------------------------------
(* Surface::new and Surface::capabilities: what is not supported *)

\* the capability query answered, without color-attachment usage or with
\* no array layer
LacksSupport(caps) ==
    /\ caps.code = Success
    /\ (~caps.color_attachment \/ caps.max_image_array_layers = 0)

\* C18 as stated: capabilities() fails with NotSupported when the surface
\* cannot be used as a color attachment or reports zero array layers.
C18_CapabilitiesNotSupported ==
    [][(last'.op = "capabilities" /\ LacksSupport(last'.caps))
       => last'.result = Err("NotSupported")]_vars

\* C18: it is Surface::new that fails with NotSupported, and makes no
\* Surface, when the surface cannot be used as a color attachment or
\* reports zero array layers; capabilities() of the Surface made never
\* fails with NotSupported: it fails exactly when the native capability
\* query does, with Lost or the unexpected error.
C18_NotSupportedAtNew ==
    [][/\ (last'.op = "new" /\ ~target.made
             /\ Calls(last'.trace, "get_capabilities")
             /\ LacksSupport(last'.caps))
          => /\ last'.result = Err("NotSupported")
             /\ ~target'.made
             /\ target'.native_surface = "destroyed"
       /\ last'.op = "capabilities"
          => /\ last'.result # Err("NotSupported")
             /\ last'.result
                   = IF last'.caps.code = Success THEN Ok
                     ELSE IF last'.caps.code = "ERROR_SURFACE_LOST_KHR"
                     THEN Err("Lost")
                     ELSE UnexpectedError(last'.caps.code)]_vars

\* Surface::new refused a surface that cannot be a color attachment
C18_Witness ==
    /\ last.op = "new"
    /\ last.result = Err("NotSupported")
    /\ last.caps.code = Success
    /\ ~last.caps.color_attachment
    /\ ~target.made

-----------------------------------------------------------------------------
(* Surface::present: the order of its steps *)

\* the names of the calls of a trace, in order
Names(trace) == [i \in DOMAIN trace |-> trace[i][1]]

\* the calls of a trace but the creation of a semaphore by the pool
SinceCheckout(trace) ==
    SelectSeq(trace, LAMBDA e : e[1] # "create_semaphore")

\* the semaphore the pool hands out in this state: the last of the free
\* list, or a new one
CheckedOut(s, v) ==
    IF s.semaphore_pool # << >>
    THEN s.semaphore_pool[Len(s.semaphore_pool)]
    ELSE v.semaphores + 1

\* C21: a present on a live swapchain checks a semaphore out, acquires an
\* image with that semaphore to signal, calls render with the acquired
\* index only if the acquisition succeeded, and issues one queue-present of
\* that index, waiting on the list render filled, only if render returned
\* Ok; nothing is called in another order.
C21_PresentOrder ==
    [][(last'.op = "present" /\ is_swapchain_valid(surface))
       => LET trace == last'.trace
              calls == SinceCheckout(trace)
              names == Names(SelectSeq(calls, LAMBDA e : e[1] # "give_back"))
          IN  /\ names \in {<< >>,
                            <<"acquire_next_image">>,
                            <<"acquire_next_image", "render">>,
                            <<"acquire_next_image", "render",
                              "queue_present">>}
              /\ names = << >>
                    <=> \E i \in Positions(trace, "create_semaphore") :
                           trace[i][3] = 0
              /\ Calls(trace, "create_semaphore")
                    => /\ Names(trace)[1] = "create_semaphore"
                       /\ Cardinality(Positions(trace, "create_semaphore")) = 1
                       /\ surface.semaphore_pool = << >>
              /\ names # << >>
                    => /\ calls[1][2] = CheckedOut(surface, vk)
                       /\ Calls(trace, "render") <=> calls[1][3] >= 0
              /\ Calls(trace, "render")
                    => /\ calls[2][2] = calls[1][3]
                       /\ Calls(trace, "queue_present") <=> calls[2][3] = 1
              /\ Calls(trace, "queue_present")
                    => /\ calls[3][2] = calls[1][3]
                       /\ surface'.present_wait_semaphores
                             = <<FrameSemaphore(calls[1][3])>>]_vars

\* a present that went through its four steps
C21_Witness ==
    /\ last.op = "present"
    /\ last.result = Ok
    /\ Names(SinceCheckout(last.trace))
          = <<"acquire_next_image", "render", "queue_present", "give_back">>

\* C22: the semaphore a present checked out goes back to the free list
\* once, as the last thing present does, after the present call when one is
\* issued: it is not in the free list while the image is acquired and
\* while the contents render.
C22_SemaphoreHeldUntilPresent ==
    [][(last'.op = "present" /\ Calls(last'.trace, "acquire_next_image"))
       => LET trace == last'.trace
              semaphore == CheckedOut(surface, vk)
              pool == surface'.semaphore_pool
          IN  /\ Positions(trace, "give_back") = {Len(trace)}
              /\ trace[Len(trace)][2] = semaphore
              /\ \A i \in Positions(trace, "acquire_next_image") :
                    trace[i][2] = semaphore
              /\ pool # << >>
              /\ pool[Len(pool)] = semaphore
              \* the free list during the acquisition and the render
              /\ \A j \in 1..(Len(pool) - 1) : pool[j] # semaphore
              /\ SubSeq(pool, 1, Len(pool) - 1)
                    = IF surface.semaphore_pool = << >> THEN << >>
                      ELSE SubSeq(surface.semaphore_pool, 1,
                                  Len(surface.semaphore_pool) - 1)]_vars

\* a present that rendered with a semaphore taken from the free list
C22_Witness ==
    /\ last.op = "present"
    /\ last.pool # << >>
    /\ Calls(last.trace, "render")
    /\ Calls(last.trace, "queue_present")
    /\ last.trace[Len(last.trace)][1] = "give_back"

-----------------------------------------------------------------------------
(* Surface: the swapchains of a retired surface *)

\* C25: when the recreation of the swapchain fails in a configure (the
\* creation or the listing of the images fails), the swapchain that was
\* live before and the one just created are both destroyed: a retired
\* surface leaves no swapchain undestroyed.
C25_RetiredOwnsNoSwapchain ==
    (last.op \in ConfigureOps /\ last.result # Ok
       /\ Calls(last.trace, "create_swapchain"))
    => /\ ~is_swapchain_valid(surface)
       /\ vk.live = {}

-----------------------------------------------------------------------------
(* RenderPass::notify_destroy_images *)

\* the calls of notify_destroy_images in a configure_unchecked: those
\* between its notification and the reconfiguration of the surface
DestroyCalls(trace) ==
    SubSeq(trace, 2,
           The(Positions(trace, "configure_unchecked")) - 1)

\* C23: notify_destroy_images waits on the fence of every frame, in order,
\* then has the attachments release their image views, then destroys the
\* framebuffer of every frame, and nothing else; after it every per-frame
\* record is without framebuffer and has the command buffer, the fence and
\* the semaphore it had, all still alive, and there are as many records.
C23_WaitThenRelease ==
    [][(last'.op = "configure_unchecked" /\ Destroyed(last'.trace))
       => LET n == Len(rp.per_frame)
              calls == DestroyCalls(last'.trace)
          IN  /\ last'.trace[1] = Event("notify_destroy_images", n, 0)
              /\ Cardinality(Positions(last'.trace, "configure_unchecked"))
                    = 1
              /\ Len(calls) = 2 * n + 1
              /\ \A i \in 1..n :
                    /\ calls[i][1] = "wait_for_fences"
                    /\ calls[i][2] = rp.per_frame[i].fence
                    /\ calls[n + 1 + i]
                          = Event("destroy_framebuffer",
                                  rp.per_frame[i].framebuffer, 0)
              /\ calls[n + 1][1] = "notify_destroying_output"
              /\ ~Calls(last'.trace, "notify_new_images")
                    => /\ Len(rp'.per_frame) = n
                       /\ \A i \in 1..n :
                             /\ rp'.per_frame[i]
                                   = [rp.per_frame[i] EXCEPT
                                         !.framebuffer = Null]
                             /\ rp.per_frame[i].framebuffer
                                   \notin gpu'.live_framebuffers
                             /\ rp.per_frame[i].fence \in gpu'.fences
                             /\ rp.per_frame[i].semaphore \in gpu'.semaphores
                             /\ rp.per_frame[i].command_buffer
                                   \in gpu'.command_buffers
                       /\ gpu'.fences = gpu.fences
                       /\ gpu'.semaphores = gpu.semaphores
                       /\ gpu'.command_buffers = gpu.command_buffers]_vars

\* two frames lost their framebuffers and nothing else
C23_Witness ==
    /\ last.op = "configure_unchecked"
    /\ Destroyed(last.trace)
    /\ ~Calls(last.trace, "notify_new_images")
    /\ Len(rp.per_frame) = 2
    /\ HeldFramebuffers(rp) = {}
    /\ Cardinality(Positions(last.trace, "destroy_framebuffer")) = 2

\* C24: a wait of notify_destroy_images that fails is fatal: the operation
\* reports the failure, and destroys no image view and no framebuffer after
\* the failed wait.
C24_FailedWaitIsFatal ==
    [][(last'.op = "configure_unchecked" /\ Destroyed(last'.trace)
          /\ ~WaitsSucceeded(last'.trace))
       => /\ last'.result # Ok
          /\ ~Calls(last'.trace, "notify_destroying_output")
          /\ ~Calls(last'.trace, "destroy_framebuffer")]_vars

-----------------------------------------------------------------------------
(* RenderPassBuilder::build: the ranges of the subpasses *)

\* the number of references the first k subpasses requested
RECURSIVE RefsUpTo(_, _)
RefsUpTo(requests, k) ==
    IF k = 0 THEN 0
    ELSE RefsUpTo(requests, k - 1) + requests[k].colors + requests[k].inputs
         + B(requests[k].depth)

\* the number of attachment indices the first k subpasses requested
RECURSIVE IndicesUpTo(_, _)
IndicesUpTo(requests, k) ==
    IF k = 0 THEN 0
    ELSE IndicesUpTo(requests, k - 1) + requests[k].preserves

\* the n elements of the list from position `first` (from 0) are about the
\* attachment `index`
RangeIs(list, first, n, index) ==
    /\ first + n <= Len(list)
    /\ \A i \in 1..n : list[first + i] = index

\* C26: in the descriptor build() makes, the color and the input range of a
\* subpass start at the element first_color_attachment, resp.
\* first_input_attachment, of the list of references, the preserve range at
\* the element first_preserve_attachment of the list of attachment indices,
\* and the depth/stencil entry is the reference depth_stencil_attachment:
\* each is the range the subpass was given when it registered; a range of
\* count 0 and a missing depth/stencil are null; the descriptor counts the
\* attachments and the subpasses registered.
C26_BuildPatchesOffsets ==
    [][builder'.info.built
       => LET b == builder'
              refs == [i \in DOMAIN b.attachment_refs |->
                          b.attachment_refs[i].attachment]
          IN  /\ b.info.attachment_count = Len(b.attachments)
              /\ Len(b.info.subpasses) = Len(b.subpasses) + Len(b.requests)
              /\ Len(b.attachment_refs)
                    = Len(b.subpasses) + RefsUpTo(b.requests, Len(b.requests))
              /\ \A k \in DOMAIN b.requests :
                    LET sub == b.requests[k]
                        d == b.info.subpasses[Len(b.subpasses) + k]
                        first == Len(b.subpasses)
                                 + RefsUpTo(b.requests, k - 1)
                        index == RegistrationIndex(b.attachments, sub.of)
                    IN  /\ d.color_attachment_count = sub.colors
                        /\ d.input_attachment_count = sub.inputs
                        /\ d.preserve_attachment_count = sub.preserves
                        /\ d.p_color_attachments
                              = IF sub.colors > 0
                                THEN [base |-> "attachment_refs",
                                      offset |-> first]
                                ELSE NullPtr
                        /\ RangeIs(refs, first, sub.colors, index)
                        /\ d.p_input_attachments
                              = IF sub.inputs > 0
                                THEN [base |-> "attachment_refs",
                                      offset |-> first + sub.colors]
                                ELSE NullPtr
                        /\ RangeIs(refs, first + sub.colors, sub.inputs,
                                   index)
                        /\ d.p_depth_stencil_attachment
                              = IF sub.depth
                                THEN [base |-> "attachment_refs",
                                      offset |-> first + sub.colors
                                                 + sub.inputs]
                                ELSE NullPtr
                        /\ RangeIs(refs, first + sub.colors + sub.inputs,
                                   B(sub.depth), index)
                        /\ d.p_preserve_attachments
                              = IF sub.preserves > 0
                                THEN [base |-> "attachments",
                                      offset |->
                                          IndicesUpTo(b.requests, k - 1)]
                                ELSE NullPtr
                        /\ RangeIs(b.attachment_indices,
                                   IndicesUpTo(b.requests, k - 1),
                                   sub.preserves, index)]_vars

\* a descriptor of two subpasses: the second one has ranges of every kind,
\* none of which starts at 0
C26_Witness ==
    /\ builder.info.built
    /\ builder.attachments = <<"A", "B">>
    /\ builder.requests
          = <<[of |-> "A", colors |-> 1, inputs |-> 0, depth |-> FALSE,
               preserves |-> 1],
              [of |-> "B", colors |-> 2, inputs |-> 1, depth |-> TRUE,
               preserves |-> 1]>>
    /\ builder.info.subpasses[2].p_color_attachments.offset = 1
    /\ builder.info.subpasses[2].p_preserve_attachments
          = [base |-> "attachments", offset |-> 1]
    /\ builder.info.subpasses[1].p_input_attachments = NullPtr

\* the fence, semaphore and command buffer of every per-frame record
OwnedBy(frames, field) == {frames[i][field] : i \in DOMAIN frames}

\* a failed call number i of the trace is what undoes the n calls before it,
\* the last one first: `undone` names them in the order of their creation
UnwoundAt(trace, i, undone) ==
    LET n == Len(undone)
    IN  /\ i > n
        /\ Len(trace) >= i + n
        /\ \A k \in 1..n :
              /\ trace[i - k][1] = undone[n + 1 - k][1]
              /\ trace[i - k][3] = 1
              /\ trace[i + k][1] = undone[n + 1 - k][2]
              /\ trace[i + k][2] = trace[i - k][2]

\* C27: a constructor that fails part-way destroys what it had created, the
\* last created first: PerFrame::new failing at the semaphore destroys the
\* fence, failing at the command buffer destroys the semaphore and then the
\* fence, and only the objects of the per-frame records are alive afterwards;
\* RenderPass::new failing leaves no render pass and no command pool;
\* Surface::new failing leaves no native surface
C27_FailedConstructorsUnwind ==
    /\ last.op = "configure_unchecked"
          => /\ \A i \in Positions(last.trace, "create_semaphore") :
                    last.trace[i][3] = 0
                       => UnwoundAt(last.trace, i,
                                    <<(<<"create_fence", "destroy_fence">>)>>)
             /\ \A i \in Positions(last.trace, "allocate_command_buffers") :
                    last.trace[i][3] = 0
                       => UnwoundAt(last.trace, i,
                                    <<(<<"create_fence", "destroy_fence">>),
                                      <<"create_semaphore",
                                        "destroy_semaphore">> >>)
    /\ Alive
          => /\ gpu.fences = OwnedBy(rp.per_frame, "fence")
             /\ gpu.semaphores = OwnedBy(rp.per_frame, "semaphore")
             /\ gpu.command_buffers = OwnedBy(rp.per_frame, "command_buffer")
    /\ (builder.pc = "done" /\ builder.result # Ok)
          => /\ builder.render_pass \in {"none", "destroyed"}
             /\ builder.command_pool = "none"
             /\ gpu = NoObjects
    /\ ~target.made => target.native_surface \in {"none", "destroyed"}
    /\ (last.op = "new" /\ last.result # Ok
          /\ last.trace[1] = Event("create_surface", 1, 0))
          => /\ last.trace[Len(last.trace)][1] = "destroy_surface"
             /\ target.native_surface = "destroyed"

\* PerFrame::new has failed at its third step, after a record was made
C27_Witness ==
    /\ last.op = "configure_unchecked"
    /\ \E i \in Positions(last.trace, "allocate_command_buffers") :
          /\ last.trace[i][3] = 0
          /\ last.trace[i + 1][1] = "destroy_semaphore"
          /\ last.trace[i + 2][1] = "destroy_fence"
    /\ rp.per_frame # << >>
    /\ last.result # Ok

\* C28: the submissions in flight never outnumber the per-frame records, and
\* a record whose submission is in flight is not submitted again
C28_InFlightBoundedBySlots ==
    [][/\ Cardinality(gpu'.pending) <= Len(rp'.per_frame)
       /\ \A i \in Positions(last'.trace, "queue_submit") :
             last'.trace[i][3] = 1
                => \A p \in gpu.pending :
                       p.command_buffer # last'.trace[i][2]]_vars

\* the calls of `trace` named `name` on the handle h
CallsOn(trace, name, h) == {i \in Positions(trace, name) : trace[i][2] = h}

\* the calls that release the objects of per-frame records
ReleaseCalls ==
    {"destroy_framebuffer", "destroy_fence", "destroy_semaphore",
     "free_command_buffers"}

\* C29: the drop of a RenderPass releases the framebuffer (if there is one),
\* the fence, the semaphore and the command buffer of every per-frame record,
\* each once, and destroys the render pass and the command pool once, after
\* all of them; it makes no other call
C29_DropReleasesFramesFirst ==
    [][last'.op = "drop_render_pass"
       => LET trace == last'.trace
              frames == rp.per_frame
              held_fbs == {i \in DOMAIN frames : frames[i].framebuffer # Null}
          IN  /\ \A i \in DOMAIN frames :
                    /\ Cardinality(CallsOn(trace, "destroy_fence",
                                           frames[i].fence)) = 1
                    /\ Cardinality(CallsOn(trace, "destroy_semaphore",
                                           frames[i].semaphore)) = 1
                    /\ Cardinality(CallsOn(trace, "free_command_buffers",
                                           frames[i].command_buffer)) = 1
                    /\ i \in held_fbs
                          => Cardinality(CallsOn(trace, "destroy_framebuffer",
                                                 frames[i].framebuffer)) = 1
              /\ Cardinality(Positions(trace, "destroy_framebuffer"))
                    = Cardinality(held_fbs)
              /\ Len(trace) = 3 * Len(frames) + Cardinality(held_fbs) + 2
              /\ Cardinality(Positions(trace, "destroy_render_pass")) = 1
              /\ Cardinality(Positions(trace, "destroy_command_pool")) = 1
              /\ \A name \in ReleaseCalls :
                    /\ Before(trace, name, "destroy_render_pass")
                    /\ Before(trace, name, "destroy_command_pool")
              /\ rp'.per_frame = << >>
              /\ gpu'.fences = {} /\ gpu'.semaphores = {}
              /\ gpu'.command_buffers = {}
              /\ gpu'.live_framebuffers
                    = gpu.live_framebuffers
                        \ OwnedBy(frames, "framebuffer")
              /\ builder'.render_pass = "destroyed"
              /\ builder'.command_pool = "destroyed"]_vars

\* a render pass was dropped with two records, one holding a framebuffer and
\* one not
C29_Witness ==
    /\ last.op = "drop_render_pass"
    /\ Cardinality(Positions(last.trace, "destroy_fence")) = 2
    /\ Cardinality(Positions(last.trace, "destroy_framebuffer")) = 1
    /\ builder.render_pass = "destroyed"

\* C30: the drop of a Surface destroys every semaphore of the pool once and
\* leaves the pool empty, then destroys the swapchain if the Surface has
\* one, and destroys the native surface last
C30_SurfaceDropOrder ==
    [][last'.op = "drop_surface"
       => LET trace == last'.trace
              pool == surface.semaphore_pool
              n == Len(pool)
              swapchains == IF surface.swapchain # Null THEN 1 ELSE 0
          IN  /\ Len(trace) = n + swapchains + 1
              /\ \A i \in 1..n : trace[i] = Event("destroy_semaphore",
                                                  pool[i], 0)
              /\ \A i, j \in 1..n : pool[i] = pool[j] => i = j
              /\ surface'.semaphore_pool = << >>
              /\ surface.swapchain # Null
                    => /\ trace[n + 1] = Event("destroy_swapchain",
                                               surface.swapchain, 0)
                       /\ surface.swapchain \in vk.live
                       /\ surface.swapchain \notin vk'.live
              /\ surface.swapchain = Null
                    => /\ ~Calls(trace, "destroy_swapchain")
                       /\ vk' = vk
              /\ ~vk'.double_destroy
              /\ trace[Len(trace)] = Event("destroy_surface", 0, 0)
              /\ Cardinality(Positions(trace, "destroy_surface")) = 1
              /\ target.native_surface = "live"
              /\ target'.native_surface = "destroyed"]_vars

\* a Surface with a swapchain and a semaphore in its pool was dropped
C30_Witness ==
    /\ last.op = "drop_surface"
    /\ Calls(last.trace, "destroy_semaphore")
    /\ Calls(last.trace, "destroy_swapchain")
    /\ target.native_surface = "destroyed"

\* a Surface without a swapchain was dropped
C30_WitnessNoSwapchain ==
    /\ last.op = "drop_surface"
    /\ ~Calls(last.trace, "destroy_swapchain")
    /\ Calls(last.trace, "destroy_semaphore")

\* C31: after a configure that returned Ok the output attachment holds one
\* view per image of the swapchain, view i being a view of image i
C31_ViewsMatchImages ==
    (last.op = "configure" /\ last.result = Ok)
       => rp.views = [i \in DOMAIN surface.images |->
                         View(surface.images[i])]

\* C32: the semaphore a present hands to acquire_next_image is not waited on
\* by a submission that the GPU has not completed
C32_AcquireSemaphoreIdle ==
    [][\A i \in Positions(last'.trace, "acquire_next_image") :
           \A p \in gpu.pending : p.wait # last'.trace[i][2]]_vars

\* C33: the fence of every per-frame record is signaled or is the fence of
\* a submission the GPU has not completed, which will signal it: no wait on
\* it lasts forever
C33_FenceWillBeSignaled ==
    \A i \in DOMAIN rp.per_frame :
        \/ rp.per_frame[i].fence \in gpu.signaled
        \/ \E p \in gpu.pending : p.fence = rp.per_frame[i].fence

\* C34: valid contents have a swapchain, so a present on a SurfaceWithContents
\* never finds the surface retired: on invalid contents it returns OutOfDate
\* and makes no call
C34_ValidContentsHaveSwapchain ==
    /\ contents_valid => (surface.swapchain # Null
                          /\ surface.swapchain \in vk.live)
    /\ last.op = "present"
          => /\ last.result # Err("SwapchainRetired")
             /\ ~contents_valid
                   => last.result = Err("OutOfDate") /\ last.trace = << >>

\* a present on contents that a failed replacement of the swapchain left
\* invalid
C34_Witness ==
    /\ last.op = "present"
    /\ last.result = Err("OutOfDate")
    /\ ~contents_valid
    /\ surface.swapchain = Null
    /\ vk.swapchains > 0
    /\ contents.state = "Invalid"

\* C35: while the contents are valid there is one per-frame record, with a
\* live framebuffer, per image of the swapchain, and no present indexes the
\* images or the records out of range
C35_RecordPerImage ==
    /\ contents_valid
          => /\ Len(rp.per_frame) = Len(surface.images)
             /\ surface.images # << >>
             /\ \A i \in DOMAIN rp.per_frame :
                    /\ rp.per_frame[i].framebuffer # Null
                    /\ rp.per_frame[i].framebuffer \in gpu.live_framebuffers
    /\ last.op # "undefined"

\* render was invoked on the second image of a swapchain of two
C35_Witness ==
    /\ last.op = "present"
    /\ Len(surface.images) = 2
    /\ \E i \in Positions(last.trace, "render") : last.trace[i][2] = 1
    /\ CalledOn(last.trace, "queue_submit", rp.per_frame[2].command_buffer)

\* the submissions the GPU has not completed that use the object h of a
\* per-frame record: its fence, its command buffer, the semaphore it signals
\* or, through the command buffer recorded with it, its framebuffer
UsedBy(g, frames, name, h) ==
    {p \in g.pending :
        \/ name = "destroy_fence" /\ p.fence = h
        \/ name = "free_command_buffers" /\ p.command_buffer = h
        \/ name = "destroy_semaphore" /\ p.signal = h
        \/ /\ name = "destroy_framebuffer"
           /\ \E i \in DOMAIN frames :
                 /\ frames[i].framebuffer = h
                 /\ frames[i].command_buffer = p.command_buffer}

\* C36: no operation destroys the fence, the command buffer, the semaphore
\* or the framebuffer of a per-frame record while the GPU has not completed
\* a submission that uses it
C36_NoDestroyWhileInUse ==
    [][\A i \in DOMAIN last'.trace :
           last'.trace[i][1] \in ReleaseCalls
              => UsedBy(gpu, rp.per_frame, last'.trace[i][1],
                        last'.trace[i][2]) = {}]_vars

\* the handles of the calls of `trace` named `name`, in call order
HandlesOf(trace, name) ==
    LET calls == SelectSeq(trace, LAMBDA e : e[1] = name)
    IN  [i \in DOMAIN calls |-> calls[i][2]]

\* C37: the semaphores queue_present waits on are the ones render appended
\* during the same present, and no others
C37_WaitListOfThisPresent ==
    [][(last'.op = "present" /\ Calls(last'.trace, "render"))
          => surface'.present_wait_semaphores
                = HandlesOf(last'.trace, "push_wait_semaphore")]_vars

\* a present of the second image was issued while the wait list still held
\* the semaphore of the first frame, whose submission is pending
C37_Witness ==
    /\ last.op = "present"
    /\ Calls(last.trace, "queue_present")
    /\ Len(rp.per_frame) = 2
    /\ surface.present_wait_semaphores = <<rp.per_frame[2].semaphore>>
    /\ \E p \in gpu.pending : p.signal = rp.per_frame[1].semaphore

\* C38: the image list is the list of the images of the current swapchain:
\* empty when there is none, and after a configure that succeeded the images
\* the native layer reported for the new swapchain, in its order
C38_ImagesOfCurrentSwapchain ==
    /\ surface.swapchain = Null => surface.images = << >>
    /\ \A i \in DOMAIN surface.images :
           surface.images[i] = Image(surface.swapchain, i)
    /\ (last.op \in ConfigureOps /\ last.result = Ok)
          => /\ surface.swapchain # Null
             /\ \E i \in Positions(last.trace, "get_swapchain_images") :
                    /\ last.trace[i][2] = surface.swapchain
                    /\ last.trace[i][3] = Len(surface.images)

\* a second swapchain was made, with fewer images than the first
C38_Witness ==
    /\ last.op \in ConfigureOps
    /\ last.result = Ok
    /\ surface.swapchain = 2
    /\ Len(surface.images) = 1
    /\ \E i \in Positions(last.trace, "create_swapchain") :
           last.trace[i][2] = 1

\* the image query failed on a surface that had a swapchain
C38_WitnessFailedQuery ==
    /\ last.op \in ConfigureOps
    /\ \E i \in Positions(last.trace, "get_swapchain_images") :
           last.trace[i][3] = 0 - 1
    /\ \E i \in Positions(last.trace, "create_swapchain") :
           last.trace[i][2] = 1
    /\ surface.swapchain = Null

\* the first round of a script that does not make the loop go on
FinalRound(script) ==
    CHOOSE k \in DOMAIN script :
        /\ script[k] \notin Repeating
        /\ \A j \in 1..(k - 1) : script[j] \in Repeating

\* C39: read_into_vector repeats the count and the read only while the read
\* reports INCOMPLETE; when the read reports SUCCESS it returns SUCCESS and
\* the container is longer by the count that read reported; on any other
\* result of the count or of the read it returns that result and the
\* container is as long as before
C39_ReadIntoVector ==
    (query.of = "read_into_vector" /\ query.out.returned)
       => LET out == query.out
              final == query.script[out.rounds]
          IN  /\ out.rounds = FinalRound(query.script)
              /\ IF final.count_result # Success
                 THEN out.result = final.count_result /\ out.len = query.len
                 ELSE IF final.read_result = Success
                 THEN /\ out.result = Success
                      /\ out.len = query.len + final.written
                 ELSE /\ out.result = final.read_result
                      /\ out.len = query.len
              /\ out.result = Success
                    <=> (final.count_result = Success
                         /\ final.read_result = Success)

\* a call that returned SUCCESS in its last round, the read having written
\* fewer items than the count query reported
C39_Witness ==
    /\ query.of = "read_into_vector"
    /\ query.out.returned
    /\ query.out.rounds = MaxReads
    /\ query.out.result = Success
    /\ query.out.len = query.len + 1
    /\ query.script[MaxReads].count = 2

\* the bounds min_image_count <= max_image_count, or no maximum
BoundsInOrder(caps) ==
    \/ caps.max_image_count = 0
    \/ caps.min_image_count <= caps.max_image_count

\* C40: for image count bounds in order, get_min_image_count returns 3 when
\* 3 is within the bounds and the bound nearest to 3 otherwise, so a count
\* within the bounds
C40_MinImageCountWithinBounds ==
    (query.of = "get_min_image_count" /\ query.out.returned
     /\ BoundsInOrder(query.caps))
       => LET min == query.caps.min_image_count
              max == query.caps.max_image_count
              n == query.out.value
          IN  /\ n >= min
              /\ max # 0 => n <= max
              /\ (min <= 3 /\ (max = 0 \/ 3 <= max)) => n = 3
              /\ min > 3 => n = min
              /\ (max # 0 /\ max < 3) => n = max

\* the count returned for a surface that allows at most two images
C40_Witness ==
    /\ query.of = "get_min_image_count"
    /\ query.out.returned
    /\ query.caps.min_image_count = 1
    /\ query.caps.max_image_count = 2
    /\ query.out.value = 2

=============================================================================
